---- MODULE Spec2Model ----
(***************************************************************************)
(* Verification model of the job-shop scheduling backend                   *)
(* (app/main.py, app/solver.py, app/validation.py, app/models.py).         *)
(*                                                                         *)
(* The module holds several specifications over one set of variables:      *)
(*   SpecValidate  validate_solution applied to arbitrary small schedules  *)
(*   SpecSchema    the shape helpers of the schema validator               *)
(*   SpecConfig    _build_modified_model on small base model texts         *)
(*   Spec          one request through solve_once and solve_jobshop        *)
(*   SpecEngine    _build_instance and _solve_instance                     *)
(*   SpecNormalize result extraction and normalization into a Solution     *)
(*   SpecParse     parse_instance_payload_from_multipart                   *)
(* Every specification keeps the variables of the other parts at their     *)
(* idle values.                                                            *)
(***************************************************************************)
EXTENDS Integers, Sequences, FiniteSets, TLC

VARIABLES
    vsol,       \* SpecValidate: the Solution handed to validate_solution
    vout,       \* SpecValidate: outcome of validate_solution, NotRun before
    skind,      \* SpecSchema: which helper is called ("1d_int", "2d_int", "2d_bool")
    sval,       \* SpecSchema: data[key], Absent when the key is not in data
    srows,      \* SpecSchema: rows (size for the 1-D helper)
    scols,      \* SpecSchema: cols
    sout,       \* SpecSchema: outcome of the helper, SchemaNotRun before
    cbase,      \* SpecConfig: text of the base model file, a sequence of tokens
    ccfg,       \* SpecConfig: the SolverConfig
    ctmp,       \* SpecConfig: text written to the temporary model, NoFile before
    pc,         \* Spec: position of the request in solve_once / solve_jobshop
    req,        \* Spec: the inbound request (envelope fields, search, instance data)
    typedData,  \* Spec: the typed instance built by the schema validation
    tmp,        \* Spec: the temporary model file of _build_modified_model
    engine,     \* Spec: the MiniZinc instance: backend, solve_async calls and kwargs
    engineResult, \* Spec: the Result returned by instance.solve_async
    normalized, \* Spec: the Solution as the variant runner built it
    mainSolution, \* Spec: solve_once's local variable solution
    runnerOut,  \* Spec: how solve_jobshop ended (return or exception)
    validOut,   \* Spec: how validate_solution ended
    resp,       \* Spec: the HTTP response sent, NoResponse before
    epc,        \* SpecEngine: position between _build_instance and _solve_instance
    ecfg,       \* SpecEngine: the solver, timeLimitSec and maxSolutions configured
    eavail,     \* SpecEngine: the solver tags the MiniZinc installation knows
    eout,       \* SpecEngine: outcome of _build_instance, EngineNotRun before
    ekwargs,    \* SpecEngine: keyword arguments of solve_async, NoKwargs before
    nkind,      \* SpecNormalize: the problemType of the runner
    ntyped,     \* SpecNormalize: the typed instance
    nresult,    \* SpecNormalize: the Result of the engine
    nout,       \* SpecNormalize: outcome of the try block, NormalizeNotRun before
    pname,      \* SpecParse: the filename of the upload
    ptext,      \* SpecParse: the decoded content of the upload
    pout        \* SpecParse: outcome of the parser, ParseNotRun before

varsValidate == <<vsol, vout>>
varsSchema == <<skind, sval, srows, scols, sout>>
varsConfig == <<cbase, ccfg, ctmp>>
varsEngine == <<epc, ecfg, eavail, eout, ekwargs>>
varsNormalize == <<nkind, ntyped, nresult, nout>>
varsParse == <<pname, ptext, pout>>
varsPipeline ==
    <<pc, req, typedData, tmp, engine, engineResult, normalized, mainSolution,
      runnerOut, validOut, resp>>
vars ==
    <<varsValidate, varsSchema, varsConfig, varsPipeline, varsEngine, varsNormalize,
      varsParse>>

(***************************************************************************)
(* Bounds of the model.                                                    *)
(***************************************************************************)
MaxTime == 1        \* times of arbitrary schedules range over -1..MaxTime
MaxOps == 2         \* operations in an arbitrary schedule
MaxMachines == 2    \* machines in an arbitrary schedule
MaxRows == 2        \* rows of a nested field value, and largest declared rows
MaxCols == 2        \* length of a row or of a flat field value, and largest declared cols
MaxText == 7        \* tokens in a base model text
MaxJobs == 2        \* jobs of an instance sent through the pipeline
MaxTasks == 2       \* tasks (machines) of an instance sent through the pipeline
MaxWindows == 1     \* MAX_MAINT_WINDOWS of an instance sent through the pipeline
MaxStart == 1       \* start times reported by the engine range over -1..MaxStart
MaxObj == 3         \* objective values (w, END) reported by the engine: 0..MaxObj
MaxLimit == 2       \* timeLimitSec of a SolverConfig ranges over 0..MaxLimit
MaxSlots == 2       \* MAX_MAINT_WINDOWS of a typed instance handed to the normalizer
MaxParse == 5       \* tokens in the text of an uploaded instance file
MaxSolutions == 3   \* maxSolutions of a SolverConfig ranges over 1..MaxSolutions

(***************************************************************************)
(* Generic helpers.                                                        *)
(***************************************************************************)
Range(s) == {s[i] : i \in DOMAIN s}

SeqsUpTo(S, n) == UNION {[1..k -> S] : k \in 0..n}

Max2(a, b) == IF a >= b THEN a ELSE b

SetMax(S, default) == IF S = {} THEN default ELSE CHOOSE x \in S : \A y \in S : y <= x

(***************************************************************************)
(* Outcomes of a Python call: a normal return or a raised exception.       *)
(***************************************************************************)
NotRun == [exc |-> "notrun", msg |-> ""]
Ok == [exc |-> "none", msg |-> ""]
Raise(e, m) == [exc |-> e, msg |-> m]

(***************************************************************************)
(* app/validation.py: validate_solution                                    *)
(***************************************************************************)
MsgDupMachine == "Duplicate machine id detected in machines"
MsgTimes == "Operation times must be >= 0"
MsgEndStart == "Operation end must be >= start"
MsgUnknownMachine == "Operation references unknown machineId"
MsgDupOp == "Duplicate operation id within job scope"
MsgMakespan == "solution.makespan must be >= max end across operations"

\* The per-operation checks of one loop iteration, in the order of the code.
\* "" when the operation passes.
OpCheck(op, machine_set, seen_ops) ==
    IF op.start < 0 \/ op.end < 0 \/ op.duration < 0 THEN MsgTimes
    ELSE IF op.end < op.start THEN MsgEndStart
    ELSE IF op.machineId \notin machine_set THEN MsgUnknownMachine
    ELSE IF <<op.jobId, op.opId>> \in seen_ops THEN MsgDupOp
    ELSE ""

\* The for loop over solution.operations from index i on, carrying seen_ops
\* and max_end; stops at the first raise.
RECURSIVE ValidateOpsLoop(_, _, _, _, _)
ValidateOpsLoop(ops, i, machine_set, seen_ops, max_end) ==
    IF i > Len(ops) THEN [msg |-> "", max_end |-> max_end]
    ELSE LET m == OpCheck(ops[i], machine_set, seen_ops)
         IN IF m # "" THEN [msg |-> m, max_end |-> max_end]
            ELSE ValidateOpsLoop(ops, i + 1, machine_set,
                                 seen_ops \cup {<<ops[i].jobId, ops[i].opId>>},
                                 IF ops[i].end > max_end THEN ops[i].end ELSE max_end)

\* Mutant of MakespanCheck: the final comparison is dropped.
MakespanCheckDropped(makespan, max_end) == Ok

MakespanCheck(makespan, max_end) ==
    IF makespan < max_end THEN Raise("ValueError", MsgMakespan) ELSE Ok

\* Mutant of ValidateSolution: every solution is accepted.
ValidateSolutionAcceptAll(solution) == Ok

ValidateSolution(solution) ==
    LET machine_ids == [k \in DOMAIN solution.machines |-> solution.machines[k].id]
    IN IF Len(machine_ids) # Cardinality(Range(machine_ids))
       THEN Raise("ValueError", MsgDupMachine)
       ELSE LET r == ValidateOpsLoop(solution.operations, 1, Range(machine_ids), {}, 0)
            IN IF r.msg # "" THEN Raise("ValueError", r.msg)
               ELSE MakespanCheck(solution.makespan, r.max_end)

(***************************************************************************)
(* Python values as they arrive from json.loads or _parse_dzn.  One record *)
(* shape for every value: t is the Python type, i the number (a bool is 0  *)
(* or 1, a float is stored in halves: i = 3 is 1.5), s the string, l the   *)
(* list items.  Absent stands for "key not in data".                       *)
(***************************************************************************)
PyVal(t, i, s, l) == [t |-> t, i |-> i, s |-> s, l |-> l]
Absent == PyVal("absent", 0, "", <<>>)
PyNone == PyVal("none", 0, "", <<>>)
PyBool(b) == PyVal("bool", IF b THEN 1 ELSE 0, "", <<>>)
PyInt(n) == PyVal("int", n, "", <<>>)
PyFloat(halves) == PyVal("float", halves, "", <<>>)
PyStr(str) == PyVal("str", 0, str, <<>>)
PyList(items) == PyVal("list", 0, "", items)

IsList(x) == x.t = "list"

\* A call's outcome with a value: exc = "none" and val on return, otherwise
\* the exception class, its message and the key the message names.
Return(v) == [exc |-> "none", msg |-> "", key |-> "", val |-> v]
RaiseKey(e, m, k) == [exc |-> e, msg |-> m, key |-> k, val |-> <<>>]

\* int() of a string: the decimal literals of the string universe of the
\* model parse, every other string raises ValueError.
IntLiterals == [str \in {"0", "1", "2", "3"} |->
                  CASE str = "0" -> 0 [] str = "1" -> 1 [] str = "2" -> 2 [] str = "3" -> 3]

\* Truncation toward zero of a float stored in halves.
TruncHalves(h) == IF h >= 0 THEN h \div 2 ELSE 0 - ((0 - h) \div 2)

\* int(x): [exc, val]
PyIntOf(x) ==
    CASE x.t \in {"bool", "int"} -> [exc |-> "none", val |-> x.i]
      [] x.t = "float" -> [exc |-> "none", val |-> TruncHalves(x.i)]
      [] x.t = "str" -> IF x.s \in DOMAIN IntLiterals
                        THEN [exc |-> "none", val |-> IntLiterals[x.s]]
                        ELSE [exc |-> "ValueError", val |-> 0]
      [] OTHER -> [exc |-> "TypeError", val |-> 0]

\* bool(x): never raises.
PyTruth(x) ==
    CASE x.t \in {"bool", "int", "float"} -> x.i # 0
      [] x.t = "str" -> x.s # ""
      [] x.t = "list" -> Len(x.l) > 0
      [] OTHER -> FALSE

\* str.strip().lower() on the string universe of the model: no string of it
\* has surrounding whitespace, and two have upper-case letters.
StripLower(str) ==
    CASE str = "TRUE" -> "true"
      [] str = "False" -> "false"
      [] OTHER -> str

(***************************************************************************)
(* app/solver.py: _parse_bool                                              *)
(***************************************************************************)
\* Mutant of ParseBool: the strings are compared without lower-casing.
ParseBoolCaseSensitive(x) ==
    CASE x.t = "bool" -> [exc |-> "none", val |-> x.i # 0]
      [] x.t \in {"int", "float"} ->
            LET n == PyIntOf(x) IN [exc |-> n.exc, val |-> n.val # 0]
      [] x.t = "str" ->
            IF x.s \in {"true", "t", "1"} THEN [exc |-> "none", val |-> TRUE]
            ELSE IF x.s \in {"false", "f", "0"} THEN [exc |-> "none", val |-> FALSE]
            ELSE [exc |-> "ValueError", val |-> FALSE]
      [] OTHER -> [exc |-> "ValueError", val |-> FALSE]

ParseBool(x) ==
    CASE x.t = "bool" -> [exc |-> "none", val |-> x.i # 0]
      [] x.t \in {"int", "float"} ->
            LET n == PyIntOf(x) IN [exc |-> n.exc, val |-> n.val # 0]
      [] x.t = "str" ->
            LET t == StripLower(x.s)
            IN IF t \in {"true", "t", "1"} THEN [exc |-> "none", val |-> TRUE]
               ELSE IF t \in {"false", "f", "0"} THEN [exc |-> "none", val |-> FALSE]
               ELSE [exc |-> "ValueError", val |-> FALSE]
      [] OTHER -> [exc |-> "ValueError", val |-> FALSE]

(***************************************************************************)
(* app/solver.py: input validation helpers                                 *)
(***************************************************************************)
MsgMissing == "Missing required key"
MsgNotInt == "must be an integer"
MsgNot1d == "must be a 1D list of int"
MsgLength == "must have length"
MsgContainInts == "must contain integers"
MsgShape2d == "must be a 2D list with shape"
MsgShape2dInts == "must be a 2D list of ints with shape"
MsgShape2dBool == "must be a 2D list of bool with shape"
MsgNative == "raised by int() or _parse_bool"

\* The exception of the first conversion that raises when the cells are
\* converted left to right, "none" when every conversion returns.
RECURSIVE FirstExc(_, _)
FirstExc(results, k) ==
    IF k > Len(results) THEN "none"
    ELSE IF results[k].exc # "none" THEN results[k].exc
    ELSE FirstExc(results, k + 1)

\* The cells of a nested list in row-major order.
RECURSIVE Flatten(_)
Flatten(rowsSeq) ==
    IF rowsSeq = <<>> THEN <<>> ELSE Head(rowsSeq).l \o Flatten(Tail(rowsSeq))

IntCell(x) == PyIntOf(x)
BoolCell(x) == [exc |-> "none", val |-> PyTruth(x)]

\* _require_int
RequireInt(data, key) ==
    IF data[key] = Absent THEN RaiseKey("ValueError", MsgMissing, key)
    ELSE LET n == PyIntOf(data[key])
         IN IF n.exc # "none" THEN RaiseKey("ValueError", MsgNotInt, key)
            ELSE Return(n.val)

\* _require_1d_int
Require1dInt(data, key, size) ==
    IF data[key] = Absent THEN RaiseKey("ValueError", MsgMissing, key)
    ELSE LET arr == data[key]
         IN IF ~IsList(arr) THEN RaiseKey("ValueError", MsgNot1d, key)
            ELSE IF Len(arr.l) # size THEN RaiseKey("ValueError", MsgLength, key)
            ELSE LET conv == [k \in DOMAIN arr.l |-> PyIntOf(arr.l[k])]
                 IN IF FirstExc(conv, 1) # "none"
                    THEN RaiseKey("ValueError", MsgContainInts, key)
                    ELSE Return([k \in DOMAIN conv |-> conv[k].val])

\* The nested branch is taken: a non-empty list all of whose items are lists.
IsNested(mat) ==
    /\ IsList(mat)
    /\ Len(mat.l) > 0
    /\ \A r \in DOMAIN mat.l : IsList(mat.l[r])

\* The shape test of the nested branch.
NestedShapeBad(mat, rows, cols) ==
    \/ Len(mat.l) # rows
    \/ \E r \in DOMAIN mat.l : Len(mat.l[r].l) # cols

\* The cells of a field value, nested or flat, in row-major order.
CellsOf(val) == IF IsNested(val) THEN Flatten(val.l) ELSE val.l

\* The reshaping loop of the flat branch: range(rows) is empty for rows <= 0.
\* Where it is entered with rows > 0, rows * cols = len(mat) >= 0 gives
\* cols >= 0, so every index idx + j is inside the list.
FlatReshape(vals, rows, cols) ==
    IF rows <= 0 THEN <<>>
    ELSE [r \in 1..rows |-> [c \in 1..cols |-> vals[(r - 1) * cols + c]]]

\* The cells the flat branch converts, in order: none when rows <= 0.
FlatVisited(cells, rows, cols) == IF rows <= 0 THEN <<>> ELSE cells

\* _require_2d_int
Require2dInt(data, key, rows, cols) ==
    IF data[key] = Absent THEN RaiseKey("ValueError", MsgMissing, key)
    ELSE LET mat == data[key]
         IN IF IsNested(mat)
            THEN IF NestedShapeBad(mat, rows, cols)
                 THEN RaiseKey("ValueError", MsgShape2d, key)
                 ELSE LET conv == [r \in DOMAIN mat.l |->
                                     [c \in DOMAIN mat.l[r].l |-> IntCell(mat.l[r].l[c])]]
                      IN IF \E r \in DOMAIN conv : FirstExc(conv[r], 1) # "none"
                         THEN RaiseKey("ValueError", MsgContainInts, key)
                         ELSE Return([r \in DOMAIN conv |->
                                        [c \in DOMAIN conv[r] |-> conv[r][c].val]])
            ELSE IF IsList(mat) /\ rows * cols = Len(mat.l)
            THEN LET cells == FlatVisited(mat.l, rows, cols)
                     conv == [k \in DOMAIN cells |-> IntCell(cells[k])]
                 IN IF FirstExc(conv, 1) # "none"
                    THEN RaiseKey(FirstExc(conv, 1), MsgNative, "")
                    ELSE Return(FlatReshape([k \in DOMAIN conv |-> conv[k].val], rows, cols))
            ELSE RaiseKey("ValueError", MsgShape2dInts, key)

\* _require_2d_bool
Require2dBool(data, key, rows, cols) ==
    IF data[key] = Absent THEN RaiseKey("ValueError", MsgMissing, key)
    ELSE LET mat == data[key]
         IN IF IsNested(mat)
            THEN IF NestedShapeBad(mat, rows, cols)
                 THEN RaiseKey("ValueError", MsgShape2d, key)
                 ELSE Return([r \in DOMAIN mat.l |->
                                [c \in DOMAIN mat.l[r].l |-> BoolCell(mat.l[r].l[c]).val]])
            ELSE IF IsList(mat) /\ rows * cols = Len(mat.l)
            THEN LET cells == FlatVisited(mat.l, rows, cols)
                     conv == [k \in DOMAIN cells |-> ParseBool(cells[k])]
                 IN IF FirstExc(conv, 1) # "none"
                    THEN RaiseKey(FirstExc(conv, 1), MsgNative, "")
                    ELSE Return(FlatReshape([k \in DOMAIN conv |-> conv[k].val], rows, cols))
            ELSE RaiseKey("ValueError", MsgShape2dBool, key)

(***************************************************************************)
(* app/solver.py: _build_modified_model.  A model text is a sequence of    *)
(* tokens: the word "solve", a blank " ", a line break "\n", the statement *)
(* terminator ";" and "x" for any other character.                         *)
(***************************************************************************)
IsSpace(tok) == tok \in {" ", "\n"}

\* search_annotation + objective + ";"
Objective(cfg) == IF cfg.problemType = "tardanza_ponderada" THEN "w" ELSE "END"

SearchLine(cfg) ==
    <<"solve", " ", "::", " ", "int_search(", "BRANCH_VARS", ",", " ",
      cfg.searchHeuristic, ",", " ", cfg.valueChoice, ",", " ", "complete", ")",
      " ", "minimize", " ", Objective(cfg), ";">>

\* ^ under re.MULTILINE: the start of the text or just after a line break.
AtLineStart(text, p) == p = 1 \/ text[p - 1] = "\n"

\* First position from p on that holds no white space (Len + 1 if none).
RECURSIVE SkipSpace(_, _)
SkipSpace(text, p) ==
    IF p <= Len(text) /\ IsSpace(text[p]) THEN SkipSpace(text, p + 1) ELSE p

\* .*?; from p: the position of the first ";" reached over characters other
\* than a line break, 0 when a line break or the end comes first.
RECURSIVE LazyToSemicolon(_, _)
LazyToSemicolon(text, p) ==
    IF p > Len(text) THEN 0
    ELSE IF text[p] = ";" THEN p
    ELSE IF text[p] = "\n" THEN 0
    ELSE LazyToSemicolon(text, p + 1)

\* The pattern ^\s*solve\s+.*?; tried at p: the position of the last token
\* of the match, 0 when it does not match.  \s* must take the whole run of
\* white space (the next token has to be "solve"); \s+ is greedy and takes
\* the whole run after it, and giving characters back to .*? cannot help, a
\* line break given back stops the dot.
MatchEnd(text, p) ==
    IF ~AtLineStart(text, p) THEN 0
    ELSE LET q == SkipSpace(text, p)
         IN IF q > Len(text) \/ text[q] # "solve" THEN 0
            ELSE IF q + 1 > Len(text) \/ ~IsSpace(text[q + 1]) THEN 0
            ELSE LazyToSemicolon(text, SkipSpace(text, q + 1))

\* Mutant of ReSub: re.sub with count=1, only the first match is replaced.
RECURSIVE ReSubFirstOnly(_, _, _)
ReSubFirstOnly(text, repl, p) ==
    IF p > Len(text) THEN <<>>
    ELSE LET e == MatchEnd(text, p)
         IN IF e > 0 THEN repl \o SubSeq(text, e + 1, Len(text))
            ELSE <<text[p]>> \o ReSubFirstOnly(text, repl, p + 1)

\* re.sub(pattern, repl, text, flags=re.MULTILINE) scanning from p: every
\* non-overlapping match, leftmost first, is replaced.
RECURSIVE ReSub(_, _, _)
ReSub(text, repl, p) ==
    IF p > Len(text) THEN <<>>
    ELSE LET e == MatchEnd(text, p)
         IN IF e > 0 THEN repl \o ReSub(text, repl, e + 1)
            ELSE <<text[p]>> \o ReSub(text, repl, p + 1)

\* The content written to the temporary model file.
ModifiedModel(base, cfg) == ReSub(base, SearchLine(cfg), 1)

(***************************************************************************)
(* app/solver.py: the schema validation opening each variant runner.       *)
(* data maps every field name to its value, Absent when the key is not in  *)
(* the instance.  The helpers run in source order; the first one to raise  *)
(* ends the validation.                                                    *)
(***************************************************************************)
TardanzaFields == <<"jobs", "tasks", "d", "weights", "due_dates">>

MaintFields ==
    <<"JOBS", "TASKS", "PROC_TIME", "MAX_MAINT_WINDOWS",
      "MAINT_START", "MAINT_END", "MAINT_ACTIVE">>

AllFields == Range(TardanzaFields) \cup Range(MaintFields)

NoTyped == [jobs |-> 0, tasks |-> 0, d |-> <<>>, weights |-> <<>>, due_dates |-> <<>>,
            MAX_MW |-> 0, MAINT_START |-> <<>>, MAINT_END |-> <<>>, MAINT_ACTIVE |-> <<>>]

Failed(r) == [exc |-> r.exc, msg |-> r.msg, key |-> r.key, val |-> NoTyped]

\* Mutant of ValidateTardanza: due_dates is not validated.
ValidateTardanzaNoDueDates(data) ==
    LET jobs == RequireInt(data, "jobs") IN
    IF jobs.exc # "none" THEN Failed(jobs) ELSE
    LET tasks == RequireInt(data, "tasks") IN
    IF tasks.exc # "none" THEN Failed(tasks) ELSE
    LET d == Require2dInt(data, "d", jobs.val, tasks.val) IN
    IF d.exc # "none" THEN Failed(d) ELSE
    LET weights == Require1dInt(data, "weights", jobs.val) IN
    IF weights.exc # "none" THEN Failed(weights) ELSE
    Return([NoTyped EXCEPT !.jobs = jobs.val, !.tasks = tasks.val, !.d = d.val,
                           !.weights = weights.val])

\* _run_jobshop_tardanza, lines 188-192
ValidateTardanza(data) ==
    LET jobs == RequireInt(data, "jobs") IN
    IF jobs.exc # "none" THEN Failed(jobs) ELSE
    LET tasks == RequireInt(data, "tasks") IN
    IF tasks.exc # "none" THEN Failed(tasks) ELSE
    LET d == Require2dInt(data, "d", jobs.val, tasks.val) IN
    IF d.exc # "none" THEN Failed(d) ELSE
    LET weights == Require1dInt(data, "weights", jobs.val) IN
    IF weights.exc # "none" THEN Failed(weights) ELSE
    LET due_dates == Require1dInt(data, "due_dates", jobs.val) IN
    IF due_dates.exc # "none" THEN Failed(due_dates) ELSE
    Return([NoTyped EXCEPT !.jobs = jobs.val, !.tasks = tasks.val, !.d = d.val,
                           !.weights = weights.val, !.due_dates = due_dates.val])

\* _run_jobshop_mantenimiento, lines 296-302 (PROC_TIME is kept in field d)
ValidateMaint(data) ==
    LET JOBS == RequireInt(data, "JOBS") IN
    IF JOBS.exc # "none" THEN Failed(JOBS) ELSE
    LET TASKS == RequireInt(data, "TASKS") IN
    IF TASKS.exc # "none" THEN Failed(TASKS) ELSE
    LET PROC_TIME == Require2dInt(data, "PROC_TIME", JOBS.val, TASKS.val) IN
    IF PROC_TIME.exc # "none" THEN Failed(PROC_TIME) ELSE
    LET MAX_MW == RequireInt(data, "MAX_MAINT_WINDOWS") IN
    IF MAX_MW.exc # "none" THEN Failed(MAX_MW) ELSE
    LET MAINT_START == Require2dInt(data, "MAINT_START", TASKS.val, MAX_MW.val) IN
    IF MAINT_START.exc # "none" THEN Failed(MAINT_START) ELSE
    LET MAINT_END == Require2dInt(data, "MAINT_END", TASKS.val, MAX_MW.val) IN
    IF MAINT_END.exc # "none" THEN Failed(MAINT_END) ELSE
    LET MAINT_ACTIVE == Require2dBool(data, "MAINT_ACTIVE", TASKS.val, MAX_MW.val) IN
    IF MAINT_ACTIVE.exc # "none" THEN Failed(MAINT_ACTIVE) ELSE
    Return([NoTyped EXCEPT !.jobs = JOBS.val, !.tasks = TASKS.val, !.d = PROC_TIME.val,
                           !.MAX_MW = MAX_MW.val, !.MAINT_START = MAINT_START.val,
                           !.MAINT_END = MAINT_END.val, !.MAINT_ACTIVE = MAINT_ACTIVE.val])

ValidateInstance(problemType, data) ==
    IF problemType = "tardanza_ponderada" THEN ValidateTardanza(data)
    ELSE ValidateMaint(data)

(***************************************************************************)
(* app/solver.py: result extraction helpers.  An engine result is          *)
(* [has_solution, sol]: sol maps the names of the output variables to      *)
(* their values, Absent when result.solution has no such attribute (always *)
(* so when there is no solution).                                          *)
(***************************************************************************)
MsgResultMissing == "Result missing key"
MsgResultNotInt == "is not an int"
MsgResultNot2d == "is not a 2D int matrix with shape"
MsgInfeasible == "MiniZinc did not produce a feasible solution"

\* _require_result_int
RequireResultInt(result, key) ==
    IF result.sol[key] = Absent THEN RaiseKey("RuntimeError", MsgResultMissing, key)
    ELSE LET n == PyIntOf(result.sol[key])
         IN IF n.exc # "none" THEN RaiseKey("RuntimeError", MsgResultNotInt, key)
            ELSE Return(n.val)

\* val[i][j] for i in range(rows), j in range(cols) can all be read and
\* converted: no IndexError, no TypeError, no ValueError inside the try.
NestedReadable(val, rows, cols) ==
    \A i \in 1..rows : \A j \in 1..cols :
        /\ i <= Len(val.l) /\ IsList(val.l[i])
        /\ j <= Len(val.l[i].l)
        /\ PyIntOf(val.l[i].l[j]).exc = "none"

\* _require_result_2d
RequireResult2d(result, key, rows, cols) ==
    IF result.sol[key] = Absent THEN RaiseKey("RuntimeError", MsgResultMissing, key)
    ELSE LET val == result.sol[key]
         IN IF IsList(val) /\ Len(val.l) > 0 /\ IsList(val.l[1])
            THEN IF NestedReadable(val, rows, cols)
                 THEN Return([i \in 1..rows |-> [j \in 1..cols |-> PyIntOf(val.l[i].l[j]).val]])
                 ELSE RaiseKey("RuntimeError", MsgResultNot2d, key)
            ELSE IF ~IsList(val) \/ Len(val.l) # rows * cols
                 THEN RaiseKey("RuntimeError", MsgResultNot2d, key)
                 ELSE LET cells == FlatVisited(val.l, rows, cols)
                          conv == [k \in DOMAIN cells |-> PyIntOf(cells[k])]
                      IN IF FirstExc(conv, 1) # "none"
                         THEN RaiseKey("RuntimeError", MsgResultNot2d, key)
                         ELSE Return(FlatReshape([k \in DOMAIN conv |-> conv[k].val],
                                                 rows, cols))

(***************************************************************************)
(* app/solver.py: normalization into the Solution.  The identifiers        *)
(* f"M{j}", f"J{i}" and f"J{i}-{j}" are kept as the tuples of their parts. *)
(* The pydantic models reject negative times (models.py, Field(ge=0)) with *)
(* a pydantic ValidationError, a subclass of ValueError.                   *)
(***************************************************************************)
MsgPydantic == "pydantic validation error"

MachineId(j) == <<"M", j>>
JobId(i) == <<"J", i>>
OpId(i, j) == <<"J", i, "-", j>>

NoneSolution ==
    [makespan |-> 0, machines |-> <<>>, operations |-> <<>>,
     maintenanceWindows |-> <<>>, stats |-> [none |-> 0]]

FailedSolution(r) == [exc |-> r.exc, msg |-> r.msg, key |-> r.key, val |-> NoneSolution]

\* range(1, n + 1) has max(n, 0) elements.
Count(n) == IF n > 0 THEN n ELSE 0

\* Mutant of NormMachines: every machine gets the id of the first.
NormMachinesSameId(tasks) ==
    [j \in 1..Count(tasks) |-> [id |-> MachineId(1), name |-> MachineId(1)]]

\* machines = [Machine(id=f"M{j}", name=f"M{j}") for j in range(1, tasks + 1)]
NormMachines(tasks) ==
    [j \in 1..Count(tasks) |-> [id |-> MachineId(j), name |-> MachineId(j)]]

\* The operations in the order of the two nested loops.
NormOperations(jobs, tasks, s, d) ==
    IF jobs <= 0 \/ tasks <= 0 THEN <<>>
    ELSE [n \in 1..(jobs * tasks) |->
            LET i == ((n - 1) \div tasks) + 1
                j == ((n - 1) % tasks) + 1
            IN [jobId |-> JobId(i), machineId |-> MachineId(j), opId |-> OpId(i, j),
                start |-> s[i][j], end |-> s[i][j] + d[i][j], duration |-> d[i][j]]]

\* Operation(...) and MaintenanceWindow(...) are constructed: Field(ge=0).
TimesAccepted(x) == x.start >= 0 /\ x.end >= 0 /\ x.duration >= 0

\* max((op.end for op in ops), default=0.0)
MaxOpEnd(ops) == SetMax({ops[n].end : n \in DOMAIN ops}, 0)

\* The tardiness loop over jobs i..jobs carrying the three accumulators.
RECURSIVE TardinessLoop(_, _, _, _, _)
TardinessLoop(i, jobs, ops, due_dates, acc) ==
    IF i > jobs THEN acc
    ELSE LET job_ops == SelectSeq(ops, LAMBDA op : op.jobId = JobId(i))
             completion_time == MaxOpEnd(job_ops)
             tardiness == Max2(0, completion_time - due_dates[i])
         IN TardinessLoop(i + 1, jobs, ops, due_dates,
                IF tardiness > 0
                THEN [tardanza_total |-> acc.tardanza_total + tardiness,
                      jobs_tardios |-> acc.jobs_tardios + 1,
                      max_tardanza |-> Max2(acc.max_tardanza, tardiness)]
                ELSE acc)

\* Mutant of NormalizeTardanza: the tardiness loop is skipped.
NormalizeTardanzaNoTardiness(typed, s, w) ==
    LET ops == NormOperations(typed.jobs, typed.tasks, s, typed.d)
    IN IF \E n \in DOMAIN ops : ~TimesAccepted(ops[n])
       THEN FailedSolution(RaiseKey("ValueError", MsgPydantic, ""))
       ELSE Return([makespan |-> MaxOpEnd(ops),
                    machines |-> NormMachines(typed.tasks),
                    operations |-> ops,
                    maintenanceWindows |-> <<>>,
                    stats |-> [w |-> w, tardanza_total |-> 0, jobs_tardios |-> 0,
                               max_tardanza |-> 0]])

\* _run_jobshop_tardanza, lines 213-268
NormalizeTardanza(typed, s, w) ==
    LET ops == NormOperations(typed.jobs, typed.tasks, s, typed.d)
    IN IF \E n \in DOMAIN ops : ~TimesAccepted(ops[n])
       THEN FailedSolution(RaiseKey("ValueError", MsgPydantic, ""))
       ELSE LET t == TardinessLoop(1, typed.jobs, ops, typed.due_dates,
                         [tardanza_total |-> 0, jobs_tardios |-> 0, max_tardanza |-> 0])
            IN Return([makespan |-> MaxOpEnd(ops),
                       machines |-> NormMachines(typed.tasks),
                       operations |-> ops,
                       maintenanceWindows |-> <<>>,
                       stats |-> [w |-> w, tardanza_total |-> t.tardanza_total,
                                  jobs_tardios |-> t.jobs_tardios,
                                  max_tardanza |-> t.max_tardanza]])

\* The maintenance cells (m, k) in the order of the two nested loops.
MaintCells(tasks, max_mw) ==
    IF tasks <= 0 \/ max_mw <= 0 THEN <<>>
    ELSE [n \in 1..(tasks * max_mw) |->
            [m |-> ((n - 1) \div max_mw) + 1, k |-> ((n - 1) % max_mw) + 1]]

\* Mutant of MaintWindows: MAINT_ACTIVE is not consulted.
MaintWindowsAllCells(typed) ==
    LET cells == MaintCells(typed.tasks, typed.MAX_MW)
    IN [n \in DOMAIN cells |->
          LET start == typed.MAINT_START[cells[n].m][cells[n].k]
              end == typed.MAINT_END[cells[n].m][cells[n].k]
          IN [machineId |-> MachineId(cells[n].m), start |-> start, end |-> end,
              duration |-> Max2(0, end - start)]]

\* One MaintenanceWindow per active cell (m is 1-based here: f"M{m + 1}").
MaintWindows(typed) ==
    LET cells == SelectSeq(MaintCells(typed.tasks, typed.MAX_MW),
                           LAMBDA c : typed.MAINT_ACTIVE[c.m][c.k])
    IN [n \in DOMAIN cells |->
          LET start == typed.MAINT_START[cells[n].m][cells[n].k]
              end == typed.MAINT_END[cells[n].m][cells[n].k]
          IN [machineId |-> MachineId(cells[n].m), start |-> start, end |-> end,
              duration |-> Max2(0, end - start)]]

RECURSIVE SumDurations(_)
SumDurations(ws) == IF ws = <<>> THEN 0 ELSE Head(ws).duration + SumDurations(Tail(ws))

\* Mutant of NormalizeMaint: makespan is recomputed from the operations.
NormalizeMaintRecomputed(typed, S, END) ==
    LET ops == NormOperations(typed.jobs, typed.tasks, S, typed.d)
        windows == MaintWindows(typed)
    IN IF \/ \E n \in DOMAIN ops : ~TimesAccepted(ops[n])
          \/ \E n \in DOMAIN windows : ~TimesAccepted(windows[n])
          \/ END < 0
       THEN FailedSolution(RaiseKey("ValueError", MsgPydantic, ""))
       ELSE Return([makespan |-> MaxOpEnd(ops),
                    machines |-> NormMachines(typed.tasks),
                    operations |-> ops,
                    maintenanceWindows |-> windows,
                    stats |-> [maint_windows |-> Len(windows),
                               maint_time |-> SumDurations(windows)]])

\* _run_jobshop_mantenimiento, lines 325-378: makespan is END as reported.
\* maintenanceWindows is None when no window is active: <<>> stands for both.
NormalizeMaint(typed, S, END) ==
    LET ops == NormOperations(typed.jobs, typed.tasks, S, typed.d)
        windows == MaintWindows(typed)
    IN IF \/ \E n \in DOMAIN ops : ~TimesAccepted(ops[n])
          \/ \E n \in DOMAIN windows : ~TimesAccepted(windows[n])
          \/ END < 0
       THEN FailedSolution(RaiseKey("ValueError", MsgPydantic, ""))
       ELSE Return([makespan |-> END,
                    machines |-> NormMachines(typed.tasks),
                    operations |-> ops,
                    maintenanceWindows |-> windows,
                    stats |-> [maint_windows |-> Len(windows),
                               maint_time |-> SumDurations(windows)]])

\* Mutant of NoFeasibleSolution: the has_solution() test is skipped.
NoFeasibleSolutionIgnored(result) == FALSE

\* not result.status.has_solution()
NoFeasibleSolution(result) == ~result.has_solution

\* The rest of the try block once the engine has returned: the has_solution
\* test, the extraction of the two output variables and the normalization.
AfterSolve(problemType, typed, result) ==
    LET startKey == IF problemType = "tardanza_ponderada" THEN "s" ELSE "S"
        objKey == IF problemType = "tardanza_ponderada" THEN "w" ELSE "END"
    IN IF NoFeasibleSolution(result)
       THEN FailedSolution(RaiseKey("RuntimeError", MsgInfeasible, ""))
       ELSE LET s == RequireResult2d(result, startKey, typed.jobs, typed.tasks)
            IN IF s.exc # "none" THEN FailedSolution(s)
               ELSE LET w == RequireResultInt(result, objKey)
                    IN IF w.exc # "none" THEN FailedSolution(w)
                       ELSE IF problemType = "tardanza_ponderada"
                            THEN NormalizeTardanza(typed, s.val, w.val)
                            ELSE NormalizeMaint(typed, s.val, w.val)

(***************************************************************************)
(* app/solver.py: _build_instance and _solve_instance.                     *)
(***************************************************************************)
\* solver_map
SolverMap(name) ==
    CASE name = "chuffed" -> "chuffed"
      [] name = "gecode" -> "gecode"
      [] name = "or-tools" -> "com.google.ortools.sat"
      [] OTHER -> ""

\* Solver.lookup(tag) of the minizinc package: the solver when it is
\* installed, LookupError otherwise.
SolverLookup(tag, available) == IF tag \in available THEN tag ELSE "LookupError"

\* _build_instance: the backend of the Instance, or the exception raised.
BuildInstanceOutcome(cfg, available) ==
    LET solver_name == SolverMap(cfg.solver)
    IN IF solver_name = "" THEN [exc |-> "ValueError", backend |-> ""]
       ELSE LET first == SolverLookup(solver_name, available)
                solver == IF first = "LookupError"
                          THEN SolverLookup("gecode", available)
                          ELSE first
            IN IF solver = "LookupError" THEN [exc |-> "LookupError", backend |-> ""]
               ELSE [exc |-> "none", backend |-> solver]

\* Mutant of SolveKwargs: the timeout is passed whatever timeLimitSec is.
SolveKwargsAlwaysTimeout(cfg) ==
    [has_timeout |-> TRUE,
     timeout |-> cfg.timeLimitSec,
     has_nr_solutions |-> cfg.maxSolutions > 1,
     nr_solutions |-> IF cfg.maxSolutions > 1 THEN cfg.maxSolutions ELSE 0]

\* _solve_instance: the keyword arguments of solve_async; has_timeout and
\* has_nr_solutions say whether the key is in kwargs, the value is 0 when not.
SolveKwargs(cfg) ==
    [has_timeout |-> cfg.timeLimitSec > 0,
     timeout |-> IF cfg.timeLimitSec > 0 THEN cfg.timeLimitSec ELSE 0,
     has_nr_solutions |-> cfg.maxSolutions > 1,
     nr_solutions |-> IF cfg.maxSolutions > 1 THEN cfg.maxSolutions ELSE 0]

(***************************************************************************)
(* app/main.py: the responses of solve_once and of the exception handlers. *)
(***************************************************************************)
NoResponse == [code |-> 0, status |-> "", detail |-> "", key |-> "", solution |-> NoneSolution]

\* http_exception_handler: the detail of the HTTPException is the body.
ClientError(detail, key) ==
    [code |-> 400, status |-> "", detail |-> detail, key |-> key, solution |-> NoneSolution]

\* unhandled_exception_handler: the generic body.
ServerError ==
    [code |-> 500, status |-> "", detail |-> "Internal Server Error", key |-> "",
     solution |-> NoneSolution]

\* SolutionEnvelope(status="COMPLETED", solution=solution, logs=...)
Completed(sol) ==
    [code |-> 200, status |-> "COMPLETED", detail |-> "", key |-> "", solution |-> sol]

\* The problemType of the SolverConfig handed to solve_jobshop for a
\* variation of the request.
ProblemTypeOf(variation) ==
    IF variation = "tardanza" THEN "tardanza_ponderada" ELSE "jssp_maint"

(***************************************************************************)
(* The requests, instances and engine results sent through the pipeline.   *)
(***************************************************************************)
\* A matrix field in the nested form (JSON) or the flat form (array2d of
\* the DZN-like parser).
MatrixValue(form, rows, cols, Cell(_, _)) ==
    IF form = "nested"
    THEN PyList([i \in 1..rows |-> PyList([j \in 1..cols |-> Cell(i, j)])])
    ELSE PyList([n \in 1..(rows * cols) |->
                   Cell(((n - 1) \div cols) + 1, ((n - 1) % cols) + 1)])

VectorValue(size, Cell(_)) == PyList([i \in 1..size |-> Cell(i)])

DurationCell(i, j) == PyInt(1 + ((i + j) % 2))
WeightCell(i) == PyInt(1)
DueDateCell(i) == PyInt(i)
MaintStartCell(m, k) == PyInt(m)
MaintEndCell(m, k) == PyInt(m + 2)
MaintActiveCell(m, k) == PyBool(m % 2 = 1)

TardanzaInstance(jobs, tasks, form) ==
    [f \in AllFields |->
        CASE f = "jobs" -> PyInt(jobs)
          [] f = "tasks" -> PyInt(tasks)
          [] f = "d" -> MatrixValue(form, jobs, tasks, DurationCell)
          [] f = "weights" -> VectorValue(jobs, WeightCell)
          [] f = "due_dates" -> VectorValue(jobs, DueDateCell)
          [] OTHER -> Absent]

MaintInstance(jobs, tasks, mw, form) ==
    [f \in AllFields |->
        CASE f = "JOBS" -> PyInt(jobs)
          [] f = "TASKS" -> PyInt(tasks)
          [] f = "PROC_TIME" -> MatrixValue(form, jobs, tasks, DurationCell)
          [] f = "MAX_MAINT_WINDOWS" -> PyInt(mw)
          [] f = "MAINT_START" -> MatrixValue(form, tasks, mw, MaintStartCell)
          [] f = "MAINT_END" -> MatrixValue(form, tasks, mw, MaintEndCell)
          [] f = "MAINT_ACTIVE" -> MatrixValue(form, tasks, mw, MaintActiveCell)
          [] OTHER -> Absent]

Forms == {"nested", "flat"}

WellFormedInstances(variation) ==
    IF variation = "tardanza"
    THEN {TardanzaInstance(j, t, fm) : j \in 1..MaxJobs, t \in 1..MaxTasks, fm \in Forms}
    ELSE UNION {{MaintInstance(j, t, mw, fm) : j \in 1..MaxJobs, t \in 1..MaxTasks}
                  : mw \in 0..MaxWindows, fm \in Forms}

RequiredFields(variation) ==
    IF variation = "tardanza" THEN Range(TardanzaFields) ELSE Range(MaintFields)

ScalarFields == {"jobs", "tasks", "JOBS", "TASKS", "MAX_MAINT_WINDOWS"}

\* A defective value for a field: the key removed; a value of the wrong
\* kind; or nulls (a null scalar, a list of nulls as long as the original).
Defective(value, f, kind) ==
    CASE kind = "absent" -> Absent
      [] kind = "wrong" -> IF f \in ScalarFields THEN PyStr("maybe") ELSE PyInt(1)
      [] kind = "null" -> IF f \in ScalarFields THEN PyNone
                          ELSE PyList([n \in 1..Len(CellsOf(value)) |-> PyNone])

DefectKinds == {"absent", "wrong", "null"}

\* The well-formed instances and those with one or two defective fields.
Instances(variation) ==
    LET good == WellFormedInstances(variation)
        fields == RequiredFields(variation)
    IN good
       \cup {[d EXCEPT ![f] = Defective(d[f], f, k)] :
               d \in good, f \in fields, k \in DefectKinds}
       \cup {[d EXCEPT ![x[1]] = Defective(d[x[1]], x[1], x[2]),
                       ![x[3]] = Defective(d[x[3]], x[3], x[4])] :
               d \in good,
               x \in {y \in fields \X DefectKinds \X fields \X DefectKinds : y[1] # y[3]}}

SearchConfigs ==
    [solver : {"chuffed", "gecode", "or-tools"},
     searchHeuristic : {"first_fail"},
     valueChoice : {"indomain_min"},
     timing : {<<0, 1>>, <<1, 2>>}]

ConfigOf(c) ==
    [solver |-> c.solver, searchHeuristic |-> c.searchHeuristic,
     valueChoice |-> c.valueChoice,
     timeLimitSec |-> c.timing[1], maxSolutions |-> c.timing[2]]

DefaultConfig ==
    [solver |-> "gecode", searchHeuristic |-> "first_fail", valueChoice |-> "indomain_min",
     timeLimitSec |-> 0, maxSolutions |-> 1]

\* Requests whose envelope is in order: every instance, every configuration.
SoundRequests ==
    UNION {[ctype : {"multipart"}, modelId : {"jobshop"}, variation : {v},
            search : {"valid"}, source : {"file"},
            cfg : {ConfigOf(c) : c \in SearchConfigs}, data : Instances(v)]
             : v \in {"tardanza", "mantenimiento"}}

\* Requests with any envelope, one instance and one configuration.
EnvelopeRequests ==
    {r \in [ctype : {"multipart", "json"},
            modelId : {"jobshop", "other", ""},
            variation : {"tardanza", "mantenimiento", "other", ""},
            search : {"valid", "unparsable", "invalid", ""},
            source : {"file", "file_unreadable", "file_unparsable",
                      "stored", "stored_missing", ""},
            cfg : {DefaultConfig},
            data : {TardanzaInstance(1, 1, "nested"), MaintInstance(1, 1, 1, "flat")}] :
        /\ r.ctype = "json" => r.source \in {"stored", "stored_missing", ""}
        /\ r.variation = "tardanza" => r.data = TardanzaInstance(1, 1, "nested")
        /\ r.variation # "tardanza" => r.data = MaintInstance(1, 1, 1, "flat")}

Requests == SoundRequests \cup EnvelopeRequests

\* The solvers installed beside MiniZinc.
Installations ==
    {{"chuffed", "gecode", "com.google.ortools.sat"}, {"gecode"}, {"chuffed"}, {}}

\* The text of the base model file read by _build_modified_model.
BaseTemplate == <<"x", ";", "\n", "solve", " ", "x", ";", "\n">>

\* The start-time matrices the engine may report for a rows x cols problem:
\* the declared shape, nested or flat, other shapes, or no such variable.
StartMatrices(rows, cols) ==
    {MatrixValue("nested", rows, cols, LAMBDA i, j : PyInt(v)) : v \in (0 - 1)..MaxStart}
      \cup {MatrixValue("flat", rows, cols, LAMBDA i, j : PyInt(0)),
            MatrixValue("nested", rows + 1, cols, LAMBDA i, j : PyInt(0)),
            MatrixValue("nested", rows, cols + 1, LAMBDA i, j : PyInt(0)),
            MatrixValue("nested", rows, cols - 1, LAMBDA i, j : PyInt(0)),
            Absent}

ResultKeys == {"s", "w", "S", "END"}

\* A result without a solution: result.solution is None.
NoResult == [has_solution |-> FALSE, sol |-> [k \in ResultKeys |-> Absent]]

\* The results with a solution for a problem type and declared dimensions.
SolvedResults(problemType, rows, cols) ==
    LET startKey == IF problemType = "tardanza_ponderada" THEN "s" ELSE "S"
        objKey == IF problemType = "tardanza_ponderada" THEN "w" ELSE "END"
    IN {[has_solution |-> TRUE,
         sol |-> [k \in ResultKeys |->
                    IF k = startKey THEN m ELSE IF k = objKey THEN o ELSE Absent]] :
          m \in StartMatrices(rows, cols),
          o \in {PyInt(v) : v \in 0..MaxObj} \cup {Absent}}

EngineResults(problemType, rows, cols) ==
    {NoResult} \cup SolvedResults(problemType, rows, cols)

(***************************************************************************)
(* Idle values: what the variables of a part hold in the specifications    *)
(* of the other parts.                                                     *)
(***************************************************************************)
NoSolution == [makespan |-> 0, machines |-> <<>>, operations |-> <<>>]

SchemaNotRun == [exc |-> "notrun", msg |-> "", key |-> "", val |-> <<>>]

NoFile == <<"<no file>">>

IdleConfig ==
    [problemType |-> "tardanza_ponderada", searchHeuristic |-> "input_order",
     valueChoice |-> "indomain_min"]

ValidateIdle == vsol = NoSolution /\ vout = NotRun

SchemaIdle ==
    /\ skind = "2d_int" /\ sval = Absent /\ srows = 0 /\ scols = 0
    /\ sout = SchemaNotRun

ConfigIdle == cbase = <<>> /\ ccfg = IdleConfig /\ ctmp = NoFile

NoTmp == [exists |-> FALSE, created |-> 0, unlinked |-> 0, text |-> <<>>]
NoEngine == [backend |-> "", calls |-> 0, timeout |-> 0, nr_solutions |-> 0]
RunnerNotRun == [exc |-> "notrun", msg |-> "", key |-> ""]

IdleRequest ==
    [ctype |-> "json", modelId |-> "", variation |-> "", search |-> "", source |-> "",
     cfg |-> DefaultConfig, data |-> [f \in AllFields |-> Absent]]

\* Everything of a request but the request itself, before solve_once runs.
PipelineFresh ==
    /\ typedData = NoTyped /\ tmp = NoTmp /\ engine = NoEngine
    /\ engineResult = NoResult /\ normalized = NoneSolution /\ mainSolution = NoneSolution
    /\ runnerOut = RunnerNotRun /\ validOut = NotRun /\ resp = NoResponse

PipelineIdle == pc = "idle" /\ req = IdleRequest /\ PipelineFresh

EngineNotRun == [exc |-> "notrun", backend |-> ""]
NoKwargs ==
    [has_timeout |-> FALSE, timeout |-> 0, has_nr_solutions |-> FALSE, nr_solutions |-> 0]
IdleEngineConfig == [solver |-> "", timeLimitSec |-> 0, maxSolutions |-> 1]

EngineIdle ==
    /\ epc = "idle" /\ ecfg = IdleEngineConfig /\ eavail = {}
    /\ eout = EngineNotRun /\ ekwargs = NoKwargs

NormalizeNotRun == [exc |-> "notrun", msg |-> "", key |-> "", val |-> NoneSolution]

NormalizeIdle ==
    nkind = "" /\ ntyped = NoTyped /\ nresult = NoResult /\ nout = NormalizeNotRun

\* A value of the parsed instance: an int, a string (a sequence of
\* characters or tokens), or a dict as the set of its <<key, value>> pairs.
JVal(t, i, str, d) == [t |-> t, i |-> i, s |-> str, d |-> d]
NoJVal == JVal("none", 0, <<>>, {})

ParseNotRun == [exc |-> "notrun", val |-> NoJVal]

ParseIdle == pname = <<>> /\ ptext = <<>> /\ pout = ParseNotRun

OtherPartsIdle == EngineIdle /\ NormalizeIdle /\ ParseIdle

(***************************************************************************)
(* SpecValidate: validate_solution on arbitrary small schedules.           *)
(* Times include -1: validate_solution checks the sign itself, so the      *)
(* check is exercised (Solution objects built with model_construct or      *)
(* mutated after construction are not screened by the schema).             *)
(***************************************************************************)
ArbMachineIds == {"M1", "M2"}
ArbJobIds == {"J1", "J2"}
ArbOpIds == {"J1-1", "J1-2"}
ArbTimes == (0 - 1)..MaxTime

ArbMachines == {[id |-> m, name |-> m] : m \in ArbMachineIds}

ArbOperations ==
    [jobId : ArbJobIds, machineId : ArbMachineIds \cup {"M3"}, opId : ArbOpIds,
     start : ArbTimes, end : ArbTimes, duration : {0 - 1, 0}]

ArbSolutions ==
    [makespan : 0..MaxTime,
     machines : SeqsUpTo(ArbMachines, MaxMachines),
     operations : SeqsUpTo(ArbOperations, MaxOps)]

(***************************************************************************)
(* SpecSchema: the shape helpers of the schema validator on arbitrary      *)
(* small field values and arbitrary declared dimensions, negative and zero *)
(* included (_require_int accepts any integer).                            *)
(***************************************************************************)
SchemaCells ==
    {PyBool(TRUE), PyInt(0), PyInt(2), PyFloat(1), PyFloat(2),
     PyStr("false"), PyStr("TRUE"), PyStr("maybe"), PyNone}

SchemaRows == {PyList(r) : r \in SeqsUpTo(SchemaCells, MaxCols)}

SchemaValues ==
    {Absent, PyInt(1)}
      \cup SchemaRows
      \cup {PyList(m) : m \in SeqsUpTo(SchemaRows, MaxRows) \ {<<>>}}
      \cup {PyList(<<r, c>>) : r \in SchemaRows, c \in SchemaCells}

SchemaDims == (0 - 1)..MaxRows

ApplySchema(kind, val, rows, cols) ==
    LET data == [k \in {"field"} |-> val]
    IN CASE kind = "1d_int" -> Require1dInt(data, "field", rows)
         [] kind = "2d_int" -> Require2dInt(data, "field", rows, cols)
         [] kind = "2d_bool" -> Require2dBool(data, "field", rows, cols)

InitSchema ==
    /\ skind \in {"1d_int", "2d_int", "2d_bool"}
    /\ sval \in SchemaValues
    /\ srows \in SchemaDims
    /\ scols \in IF skind = "1d_int" THEN {0} ELSE SchemaDims
    /\ sout = SchemaNotRun
    /\ ValidateIdle /\ ConfigIdle /\ PipelineIdle /\ OtherPartsIdle

RunSchema ==
    /\ sout = SchemaNotRun
    /\ sout' = ApplySchema(skind, sval, srows, scols)
    /\ UNCHANGED <<skind, sval, srows, scols, varsValidate, varsConfig, varsPipeline,
                   varsEngine, varsNormalize, varsParse>>

NextSchema == RunSchema

SpecSchema == InitSchema /\ [][NextSchema]_vars

(***************************************************************************)
(* SpecConfig: the model configurator on arbitrary small base texts.       *)
(***************************************************************************)
TextTokens == {"solve", " ", "\n", ";", "x"}

BaseTexts == SeqsUpTo(TextTokens, MaxText)

ConfigChoices ==
    [problemType : {"tardanza_ponderada", "jssp_maint"},
     searchHeuristic : {"input_order", "first_fail"},
     valueChoice : {"indomain_min", "indomain_max"}]

InitConfig ==
    /\ cbase \in BaseTexts
    /\ ccfg \in ConfigChoices
    /\ ctmp = NoFile
    /\ ValidateIdle /\ SchemaIdle /\ PipelineIdle /\ OtherPartsIdle

BuildModifiedModel ==
    /\ ctmp = NoFile
    /\ ctmp' = ModifiedModel(cbase, ccfg)
    /\ UNCHANGED <<cbase, ccfg, varsValidate, varsSchema, varsPipeline,
                   varsEngine, varsNormalize, varsParse>>

NextConfig == BuildModifiedModel

SpecConfig == InitConfig /\ [][NextConfig]_vars

InitValidate ==
    /\ vsol \in ArbSolutions
    /\ vout = NotRun
    /\ SchemaIdle /\ ConfigIdle /\ PipelineIdle /\ OtherPartsIdle

RunValidate ==
    /\ vout = NotRun
    /\ vout' = ValidateSolution(vsol)
    /\ UNCHANGED <<vsol, varsSchema, varsConfig, varsPipeline,
                   varsEngine, varsNormalize, varsParse>>

NextValidate == RunValidate

SpecValidate == InitValidate /\ [][NextValidate]_vars

(***************************************************************************)
(* Spec: one request through solve_once (app/main.py) and solve_jobshop    *)
(* (app/solver.py).  pc follows the code; an exception ends the request    *)
(* with the response of the handler that catches it.  The file system, the *)
(* MiniZinc installation and the engine are the environment: their         *)
(* outcomes are chosen when the code reaches them.                         *)
(***************************************************************************)
MsgRequired == "Field is required"
MsgSearchJson == "Field 'search' must be a valid JSON string"
MsgBody == "Invalid JSON body"
MsgReadFile == "Failed to read uploaded file"
MsgParse == "Invalid instance file"
MsgNotFound == "Instance not found"
MsgNoSource == "Either 'file' or 'instanceId' is required in multipart/form-data"
MsgTimeLimit == "search.timeLimitSec must be >= 0"
MsgMaxSolutions == "search.maxSolutions must be >= 1"
MsgUnknownModel == "Unknown modelId"
MsgUnknownVariation == "Unknown variation"
MsgModelFile == "Model file not found"

\* solve_once, lines 76-152: the response raised while the inputs are
\* extracted, NoResponse when they all are.  SearchConfig.model_validate is
\* not inside a try: its pydantic error reaches the generic handler.
ExtractOutcome(r) ==
    IF r.ctype = "multipart"
    THEN CASE r.modelId = "" -> ClientError(MsgRequired, "modelId")
           [] r.modelId # "" /\ r.variation = "" -> ClientError(MsgRequired, "variation")
           [] r.modelId # "" /\ r.variation # "" /\ r.search = "" ->
                 ClientError(MsgRequired, "search")
           [] r.modelId # "" /\ r.variation # "" /\ r.search = "unparsable" ->
                 ClientError(MsgSearchJson, "search")
           [] r.modelId # "" /\ r.variation # "" /\ r.search = "invalid" -> ServerError
           [] OTHER ->
                 CASE r.source = "file_unreadable" -> ClientError(MsgReadFile, "file")
                   [] r.source = "file_unparsable" -> ClientError(MsgParse, "file")
                   [] r.source = "stored_missing" -> ClientError(MsgNotFound, "instanceId")
                   [] r.source = "" -> ClientError(MsgNoSource, "")
                   [] OTHER -> NoResponse
    ELSE CASE r.search = "unparsable" -> ClientError(MsgBody, "")
           [] r.search # "unparsable" /\ r.modelId = "" -> ClientError(MsgRequired, "modelId")
           [] r.search # "unparsable" /\ r.modelId # "" /\ r.variation = "" ->
                 ClientError(MsgRequired, "variation")
           [] OTHER ->
                 CASE r.source = "" -> ClientError(MsgRequired, "instanceId")
                   [] r.source # "" /\ r.search = "" -> ClientError(MsgRequired, "search")
                   [] r.source # "" /\ r.search = "invalid" -> ServerError
                   [] r.source = "stored_missing" /\ r.search = "valid" ->
                         ClientError(MsgNotFound, "instanceId")
                   [] OTHER -> NoResponse

Extract ==
    /\ pc = "extract"
    /\ UNCHANGED <<varsValidate, varsSchema, varsConfig, varsEngine, varsNormalize,
                   varsParse>>
    /\ LET e == ExtractOutcome(req)
       IN IF e = NoResponse
          THEN pc' = "validate_search" /\ resp' = resp
          ELSE pc' = "done" /\ resp' = e
    /\ UNCHANGED <<req, typedData, tmp, engine, engineResult, normalized, mainSolution,
                   runnerOut, validOut>>

\* validation.py validate_search, called at main.py lines 155-158
ValidateSearchOutcome(search) ==
    IF search.timeLimitSec < 0 THEN ClientError(MsgTimeLimit, "timeLimitSec")
    ELSE IF search.maxSolutions < 1 THEN ClientError(MsgMaxSolutions, "maxSolutions")
    ELSE NoResponse

ValidateSearch ==
    /\ pc = "validate_search"
    /\ UNCHANGED <<varsValidate, varsSchema, varsConfig, varsEngine, varsNormalize,
                   varsParse>>
    /\ LET e == ValidateSearchOutcome(req.cfg)
       IN IF e = NoResponse
          THEN pc' = "model_selection" /\ resp' = resp
          ELSE pc' = "done" /\ resp' = e
    /\ UNCHANGED <<req, typedData, tmp, engine, engineResult, normalized, mainSolution,
                   runnerOut, validOut>>

\* main.py lines 161-167
ModelSelection ==
    /\ pc = "model_selection"
    /\ UNCHANGED <<varsValidate, varsSchema, varsConfig, varsEngine, varsNormalize,
                   varsParse>>
    /\ IF req.modelId # "jobshop"
       THEN pc' = "done" /\ resp' = ClientError(MsgUnknownModel, "modelId")
       ELSE IF req.variation \notin {"tardanza", "mantenimiento"}
       THEN pc' = "done" /\ resp' = ClientError(MsgUnknownVariation, "variation")
       ELSE pc' = "select_model_path" /\ resp' = resp
    /\ UNCHANGED <<req, typedData, tmp, engine, engineResult, normalized, mainSolution,
                   runnerOut, validOut>>

\* solve_jobshop line 34, _select_model_path: the model file may be missing.
SelectModelPath ==
    /\ pc = "select_model_path"
    /\ UNCHANGED <<varsValidate, varsSchema, varsConfig, varsEngine, varsNormalize,
                   varsParse>>
    /\ \E present \in BOOLEAN :
          IF present
          THEN pc' = "schema" /\ runnerOut' = runnerOut
          ELSE /\ pc' = "solve_returned"
               /\ runnerOut' = [exc |-> "RuntimeError", msg |-> MsgModelFile, key |-> ""]
    /\ UNCHANGED <<req, typedData, tmp, engine, engineResult, normalized, mainSolution,
                   validOut, resp>>

\* The variant runner up to the call of _build_modified_model: an exception
\* here leaves the runner before its try block.
SchemaValidate ==
    /\ pc = "schema"
    /\ UNCHANGED <<varsValidate, varsSchema, varsConfig, varsEngine, varsNormalize,
                   varsParse>>
    /\ LET v == ValidateInstance(ProblemTypeOf(req.variation), req.data)
       IN IF v.exc = "none"
          THEN pc' = "build_model" /\ typedData' = v.val /\ runnerOut' = runnerOut
          ELSE /\ pc' = "solve_returned" /\ typedData' = typedData
               /\ runnerOut' = [exc |-> v.exc, msg |-> v.msg, key |-> v.key]
    /\ UNCHANGED <<req, tmp, engine, engineResult, normalized, mainSolution, validOut, resp>>

\* _build_modified_model, called before the try block.  The base model may
\* fail to open; NamedTemporaryFile(delete=False) may fail to create the
\* file; write or close may fail after the file was created.
BuildModel ==
    /\ pc = "build_model"
    /\ UNCHANGED <<varsValidate, varsSchema, varsConfig, varsEngine, varsNormalize,
                   varsParse>>
    /\ \E io \in {"ok", "read_fails", "create_fails", "write_fails"} :
          /\ tmp' = CASE io = "ok" ->
                           [exists |-> TRUE, created |-> tmp.created + 1,
                            unlinked |-> tmp.unlinked,
                            text |-> ModifiedModel(BaseTemplate,
                                      [problemType |-> ProblemTypeOf(req.variation),
                                       searchHeuristic |-> req.cfg.searchHeuristic,
                                       valueChoice |-> req.cfg.valueChoice])]
                      [] io = "write_fails" ->
                           [exists |-> TRUE, created |-> tmp.created + 1,
                            unlinked |-> tmp.unlinked, text |-> <<>>]
                      [] OTHER -> tmp
          /\ IF io = "ok"
             THEN pc' = "build_instance" /\ runnerOut' = runnerOut
             ELSE /\ pc' = "solve_returned"
                  /\ runnerOut' = [exc |-> "OSError", msg |-> io, key |-> ""]
    /\ UNCHANGED <<req, typedData, engine, engineResult, normalized, mainSolution,
                   validOut, resp>>

\* _build_instance and the assignments of the instance data, inside the try.
BuildInstance ==
    /\ pc = "build_instance"
    /\ UNCHANGED <<varsValidate, varsSchema, varsConfig, varsEngine, varsNormalize,
                   varsParse>>
    /\ \E available \in Installations :
          LET b == BuildInstanceOutcome(req.cfg, available)
          IN IF b.exc = "none"
             THEN /\ pc' = "solve" /\ runnerOut' = runnerOut
                  /\ engine' = [engine EXCEPT !.backend = b.backend]
             ELSE /\ pc' = "finally" /\ engine' = engine
                  /\ runnerOut' = [exc |-> b.exc, msg |-> "", key |-> ""]
    /\ UNCHANGED <<req, typedData, tmp, engineResult, normalized, mainSolution,
                   validOut, resp>>

\* _solve_instance: solve_async is called once; it returns a Result or the
\* engine fails (MiniZincError).
SolveInstance ==
    /\ pc = "solve"
    /\ UNCHANGED <<varsValidate, varsSchema, varsConfig, varsEngine, varsNormalize,
                   varsParse>>
    /\ engine' = [engine EXCEPT !.calls = engine.calls + 1,
                                !.timeout = SolveKwargs(req.cfg).timeout,
                                !.nr_solutions = SolveKwargs(req.cfg).nr_solutions]
    /\ \/ /\ pc' = "finally"
          /\ runnerOut' = [exc |-> "MiniZincError", msg |-> "", key |-> ""]
          /\ engineResult' = engineResult
       \/ /\ pc' = "after_solve"
          /\ engineResult' \in EngineResults(ProblemTypeOf(req.variation),
                                             typedData.jobs, typedData.tasks)
          /\ runnerOut' = runnerOut
    /\ UNCHANGED <<req, typedData, tmp, normalized, mainSolution, validOut, resp>>

\* The try block after the engine returned: has_solution, the extraction of
\* the output variables, the normalization into a Solution.
Normalize ==
    /\ pc = "after_solve"
    /\ UNCHANGED <<varsValidate, varsSchema, varsConfig, varsEngine, varsNormalize,
                   varsParse>>
    /\ LET n == AfterSolve(ProblemTypeOf(req.variation), typedData, engineResult)
       IN /\ runnerOut' = [exc |-> n.exc, msg |-> n.msg, key |-> n.key]
          /\ normalized' = n.val
    /\ pc' = "finally"
    /\ UNCHANGED <<req, typedData, tmp, engine, engineResult, mainSolution, validOut, resp>>

\* The finally clause of the variant runner: os.unlink(modified_model_path)
\* inside try/except Exception: pass, so a failing unlink goes unnoticed.
Finally ==
    /\ pc = "finally"
    /\ UNCHANGED <<varsValidate, varsSchema, varsConfig, varsEngine, varsNormalize,
                   varsParse>>
    /\ \E removed \in BOOLEAN :
          tmp' = IF removed
                 THEN [tmp EXCEPT !.exists = FALSE, !.unlinked = tmp.unlinked + 1]
                 ELSE tmp
    /\ pc' = "solve_returned"
    /\ UNCHANGED <<req, typedData, engine, engineResult, normalized, mainSolution,
                   runnerOut, validOut, resp>>

\* The response solve_once gives for the way solve_jobshop ended
\* (main.py lines 170-176 and 191-197, with the two exception handlers).
SolveResponse(out) ==
    IF out.exc = "ValueError" THEN ClientError(out.msg, out.key) ELSE ServerError

SolveReturned ==
    /\ pc = "solve_returned"
    /\ UNCHANGED <<varsValidate, varsSchema, varsConfig, varsEngine, varsNormalize,
                   varsParse>>
    /\ IF runnerOut.exc \in {"none", "notrun"}
       THEN pc' = "validate_solution" /\ mainSolution' = normalized /\ resp' = resp
       ELSE pc' = "done" /\ mainSolution' = mainSolution /\ resp' = SolveResponse(runnerOut)
    /\ UNCHANGED <<req, typedData, tmp, engine, engineResult, normalized, runnerOut, validOut>>

\* main.py lines 179-182
ValidateSolutionStep ==
    /\ pc = "validate_solution"
    /\ UNCHANGED <<varsValidate, varsSchema, varsConfig, varsEngine, varsNormalize,
                   varsParse>>
    /\ validOut' = ValidateSolution(mainSolution)
    /\ IF validOut'.exc = "none"
       THEN pc' = "respond" /\ resp' = resp
       ELSE pc' = "done" /\ resp' = ClientError(validOut'.msg, "")
    /\ UNCHANGED <<req, typedData, tmp, engine, engineResult, normalized, mainSolution,
                   runnerOut>>

\* main.py lines 184-189
Respond ==
    /\ pc = "respond"
    /\ UNCHANGED <<varsValidate, varsSchema, varsConfig, varsEngine, varsNormalize,
                   varsParse>>
    /\ resp' = Completed(mainSolution)
    /\ pc' = "done"
    /\ UNCHANGED <<req, typedData, tmp, engine, engineResult, normalized, mainSolution,
                   runnerOut, validOut>>

Init ==
    /\ pc = "extract"
    /\ req \in Requests
    /\ PipelineFresh
    /\ ValidateIdle /\ SchemaIdle /\ ConfigIdle /\ OtherPartsIdle

Next ==
    \/ Extract
    \/ ValidateSearch
    \/ ModelSelection
    \/ SelectModelPath
    \/ SchemaValidate
    \/ BuildModel
    \/ BuildInstance
    \/ SolveInstance
    \/ Normalize
    \/ Finally
    \/ SolveReturned
    \/ ValidateSolutionStep
    \/ Respond

Spec == Init /\ [][Next]_vars

(***************************************************************************)
(* SpecEngine: _build_instance followed by _solve_instance for every       *)
(* SolverConfig (solver, timeLimitSec, maxSolutions) and every MiniZinc     *)
(* installation.                                                           *)
(***************************************************************************)
\* The tags a MiniZinc installation may know.
KnownTags == {"chuffed", "gecode", "com.google.ortools.sat", "coin-bc"}

\* SolverConfig: solver is one of three literals, timeLimitSec >= 0,
\* maxSolutions >= 1.
EngineConfigs ==
    [solver : {"chuffed", "gecode", "or-tools"},
     timeLimitSec : 0..MaxLimit,
     maxSolutions : 1..MaxSolutions]

InitEngine ==
    /\ epc = "build"
    /\ ecfg \in EngineConfigs
    /\ eavail \in SUBSET KnownTags
    /\ eout = EngineNotRun /\ ekwargs = NoKwargs
    /\ ValidateIdle /\ SchemaIdle /\ ConfigIdle /\ PipelineIdle
    /\ NormalizeIdle /\ ParseIdle

\* instance = _build_instance(modified_model_path, solver_config)
BuildInstanceCall ==
    /\ epc = "build"
    /\ eout' = BuildInstanceOutcome(ecfg, eavail)
    /\ epc' = IF eout'.exc = "none" THEN "solve" ELSE "done"
    /\ UNCHANGED <<ecfg, eavail, ekwargs, varsValidate, varsSchema, varsConfig,
                   varsPipeline, varsNormalize, varsParse>>

\* result = await _solve_instance(instance, solver_config=solver_config)
SolveInstanceCall ==
    /\ epc = "solve"
    /\ ekwargs' = SolveKwargs(ecfg)
    /\ epc' = "done"
    /\ UNCHANGED <<ecfg, eavail, eout, varsValidate, varsSchema, varsConfig,
                   varsPipeline, varsNormalize, varsParse>>

NextEngine == BuildInstanceCall \/ SolveInstanceCall

SpecEngine == InitEngine /\ [][NextEngine]_vars

(***************************************************************************)
(* SpecNormalize: the try block of a variant runner after the engine       *)
(* returned (has_solution test, result extraction, normalization), for     *)
(* every small typed instance and every result of the declared shape.      *)
(***************************************************************************)
NormDurations == {0 - 1, 0, 2}
NormStarts == {0 - 1, 0, 1}
NormDueDates == {0, 1, 3}

\* An integer matrix as the engine or json.loads delivers it: nested lists.
NestedOf(m) == PyList([i \in DOMAIN m |-> PyList([j \in DOMAIN m[i] |-> PyInt(m[i][j])])])

\* The typed weighted-tardiness instances: what lines 188-192 return.
TypedTardanza ==
    UNION {{[NoTyped EXCEPT !.jobs = j, !.tasks = t, !.d = dm,
                            !.weights = [i \in 1..j |-> 1], !.due_dates = dd] :
              dm \in [1..j -> [1..t -> NormDurations]], dd \in [1..j -> NormDueDates]} :
           j \in 0..MaxJobs, t \in 1..MaxTasks}

\* The typed maintenance instances: what lines 296-302 return.
TypedMaint ==
    UNION {{[NoTyped EXCEPT !.jobs = j, !.tasks = t, !.d = [i \in 1..j |-> [k \in 1..t |-> 1]],
                            !.MAX_MW = mw, !.MAINT_START = ms, !.MAINT_END = me,
                            !.MAINT_ACTIVE = ma] :
              ms \in [1..t -> [1..mw -> {0, 2}]],
              me \in [1..t -> [1..mw -> {1, 3}]],
              ma \in [1..t -> [1..mw -> BOOLEAN]]} :
           j \in 1..MaxJobs, t \in 1..MaxTasks, mw \in 0..MaxSlots}

\* The results with a solution whose start matrix has the declared shape.
ShapedResults(problemType, typed) ==
    IF problemType = "tardanza_ponderada"
    THEN {[has_solution |-> TRUE,
           sol |-> [k \in ResultKeys |->
                      IF k = "s" THEN NestedOf(sm) ELSE IF k = "w" THEN PyInt(w) ELSE Absent]] :
            sm \in [1..typed.jobs -> [1..typed.tasks -> NormStarts]], w \in {0, MaxObj}}
    ELSE {[has_solution |-> TRUE,
           sol |-> [k \in ResultKeys |->
                      IF k = "S"
                      THEN NestedOf([i \in 1..typed.jobs |-> [j \in 1..typed.tasks |-> v]])
                      ELSE IF k = "END" THEN PyInt(e) ELSE Absent]] :
            v \in {0, 1}, e \in 0..MaxObj}

InitNormalize ==
    /\ nkind \in {"tardanza_ponderada", "jssp_maint"}
    /\ ntyped \in IF nkind = "tardanza_ponderada" THEN TypedTardanza ELSE TypedMaint
    /\ nresult \in ShapedResults(nkind, ntyped) \cup {NoResult}
    /\ nout = NormalizeNotRun
    /\ ValidateIdle /\ SchemaIdle /\ ConfigIdle /\ PipelineIdle
    /\ EngineIdle /\ ParseIdle

RunNormalize ==
    /\ nout = NormalizeNotRun
    /\ nout' = AfterSolve(nkind, ntyped, nresult)
    /\ UNCHANGED <<nkind, ntyped, nresult, varsValidate, varsSchema, varsConfig,
                   varsPipeline, varsEngine, varsParse>>

NextNormalize == RunNormalize

SpecNormalize == InitNormalize /\ [][NextNormalize]_vars

(***************************************************************************)
(* SpecParse: parse_instance_payload_from_multipart on every small text.   *)
(* A text is a sequence of tokens, the file content being the tokens       *)
(* joined by single spaces.  The alphabet has no "%", "[" or "array2d", so *)
(* the comment and array branches of _parse_dzn cannot match; and no ",",  *)
(* so a JSON object has at most one member.                                *)
(***************************************************************************)
ParseTokens == {"{", "}", "\"k\"", ":", "1", "k", "=", ";"}

ParseTexts == SeqsUpTo(ParseTokens, MaxParse)

\* The filenames of an upload, as sequences of characters; <<>> is both the
\* empty filename and filename=None.
FileNames ==
    {<<>>,
     <<"a", ".", "j", "s", "o", "n">>,
     <<"A", ".", "J", "S", "O", "N">>,
     <<"a", ".", "J", "s", "o", "n">>,
     <<"a", ".", "d", "z", "n">>,
     <<"a", ".", "j", "s", "o", "n", ".", "d", "z", "n">>,
     <<"j", "s", "o", "n">>}

\* str.lower() on the characters of the filenames
LowerChar(c) ==
    CASE c = "A" -> "a" [] c = "J" -> "j" [] c = "S" -> "s" [] c = "O" -> "o"
      [] c = "N" -> "n" [] OTHER -> c

StrLower(str) == [k \in DOMAIN str |-> LowerChar(str[k])]

\* str.endswith(suffix)
EndsWith(str, suffix) ==
    /\ Len(str) >= Len(suffix)
    /\ SubSeq(str, Len(str) - Len(suffix) + 1, Len(str)) = suffix

DotJson == <<".", "j", "s", "o", "n">>

JInt(n) == JVal("int", n, <<>>, {})
JStr(str) == JVal("str", 0, str, {})
JDict(pairs) == JVal("dict", 0, <<>>, pairs)

\* json.loads: one JSON value starting at token p.  ok says whether a value
\* was read, next is the position after it.
RECURSIVE JsonValue(_, _)
JsonValue(toks, p) ==
    LET fail == [ok |-> FALSE, next |-> p, val |-> NoJVal]
    IN IF p > Len(toks) THEN fail
       ELSE CASE toks[p] = "1" -> [ok |-> TRUE, next |-> p + 1, val |-> JInt(1)]
              [] toks[p] = "\"k\"" -> [ok |-> TRUE, next |-> p + 1, val |-> JStr(<<"k">>)]
              [] toks[p] = "{" ->
                   IF p + 1 <= Len(toks) /\ toks[p + 1] = "}"
                   THEN [ok |-> TRUE, next |-> p + 2, val |-> JDict({})]
                   ELSE IF p + 2 <= Len(toks) /\ toks[p + 1] = "\"k\"" /\ toks[p + 2] = ":"
                   THEN LET v == JsonValue(toks, p + 3)
                        IN IF v.ok /\ v.next <= Len(toks) /\ toks[v.next] = "}"
                           THEN [ok |-> TRUE, next |-> v.next + 1,
                                 val |-> JDict({<<(<<"k">>), v.val>>})]
                           ELSE fail
                   ELSE fail
              [] OTHER -> fail

\* json.loads(text): the value, or JSONDecodeError (trailing tokens included).
JsonLoads(toks) ==
    LET v == JsonValue(toks, 1)
    IN IF v.ok /\ v.next = Len(toks) + 1 THEN [exc |-> "none", val |-> v.val]
       ELSE [exc |-> "JSONDecodeError", val |-> NoJVal]

\* text.split(";"): the statements, stripped, the empty ones dropped.
RECURSIVE DznStatements(_)
DznStatements(toks) ==
    IF toks = <<>> THEN <<>>
    ELSE LET cut == IF \E k \in DOMAIN toks : toks[k] = ";"
                    THEN CHOOSE k \in DOMAIN toks :
                            toks[k] = ";" /\ \A j \in 1..(k - 1) : toks[j] # ";"
                    ELSE Len(toks) + 1
             stmt == SubSeq(toks, 1, cut - 1)
             rest == DznStatements(SubSeq(toks, cut + 1, Len(toks)))
         IN IF stmt = <<>> THEN rest ELSE <<stmt>> \o rest

\* data[key] = value: a later statement with the same key overwrites.
DictPut(pairs, key, value) == {q \in pairs : q[1] # key} \cup {<<key, value>>}

\* The scalar branch of _parse_dzn: int(v) when it converts, else the raw string.
DznScalar(v) == IF v = <<"1">> THEN JInt(1) ELSE JStr(v)

\* The loop of _parse_dzn over the statements from the n-th on.
RECURSIVE DznLoop(_, _, _)
DznLoop(stmts, n, data) ==
    IF n > Len(stmts) THEN data
    ELSE LET stmt == stmts[n]
         IN IF ~\E k \in DOMAIN stmt : stmt[k] = "="
            THEN DznLoop(stmts, n + 1, data)
            ELSE LET eq == CHOOSE k \in DOMAIN stmt :
                              stmt[k] = "=" /\ \A j \in 1..(k - 1) : stmt[j] # "="
                     key == SubSeq(stmt, 1, eq - 1)
                     val == SubSeq(stmt, eq + 1, Len(stmt))
                 IN DznLoop(stmts, n + 1, DictPut(data, key, DznScalar(val)))

\* _parse_dzn
ParseDzn(toks) == JDict(DznLoop(DznStatements(toks), 1, {}))

\* Mutant of ParseInstancePayload: the filename is not lower-cased.
ParseInstancePayloadCaseSensitive(filename, toks) ==
    LET obj == JsonLoads(toks)
    IN IF EndsWith(filename, DotJson)
       THEN IF obj.exc = "none" /\ obj.val.t = "dict"
            THEN [exc |-> "none", val |-> obj.val]
            ELSE [exc |-> "ValueError", val |-> NoJVal]
       ELSE IF obj.exc = "none" /\ obj.val.t = "dict"
            THEN [exc |-> "none", val |-> obj.val]
            ELSE [exc |-> "none", val |-> ParseDzn(toks)]

\* parse_instance_payload_from_multipart
ParseInstancePayload(filename, toks) ==
    LET name == StrLower(filename)
        obj == JsonLoads(toks)
    IN IF EndsWith(name, DotJson)
       THEN IF obj.exc = "none" /\ obj.val.t = "dict"
            THEN [exc |-> "none", val |-> obj.val]
            ELSE [exc |-> "ValueError", val |-> NoJVal]
       ELSE IF obj.exc = "none" /\ obj.val.t = "dict"
            THEN [exc |-> "none", val |-> obj.val]
            ELSE [exc |-> "none", val |-> ParseDzn(toks)]

InitParse ==
    /\ pname \in FileNames
    /\ ptext \in ParseTexts
    /\ pout = ParseNotRun
    /\ ValidateIdle /\ SchemaIdle /\ ConfigIdle /\ PipelineIdle
    /\ EngineIdle /\ NormalizeIdle

RunParse ==
    /\ pout = ParseNotRun
    /\ pout' = ParseInstancePayload(pname, ptext)
    /\ UNCHANGED <<pname, ptext, varsValidate, varsSchema, varsConfig, varsPipeline,
                   varsEngine, varsNormalize>>

NextParse == RunParse

SpecParse == InitParse /\ [][NextParse]_vars

(***************************************************************************)
(* The five invariants of the Solution contract, stated on the schedule.   *)
(***************************************************************************)
MachineIdsUnique(sol) ==
    \A i, j \in DOMAIN sol.machines :
        i # j => sol.machines[i].id # sol.machines[j].id

OperationTimesOk(sol) ==
    \A k \in DOMAIN sol.operations :
        LET op == sol.operations[k]
        IN op.start >= 0 /\ op.end >= 0 /\ op.duration >= 0 /\ op.end >= op.start

MachineRefsDeclared(sol) ==
    \A k \in DOMAIN sol.operations :
        \E i \in DOMAIN sol.machines : sol.machines[i].id = sol.operations[k].machineId

OperationKeysUnique(sol) ==
    \A k, l \in DOMAIN sol.operations :
        k # l => <<sol.operations[k].jobId, sol.operations[k].opId>>
                 # <<sol.operations[l].jobId, sol.operations[l].opId>>

MaxEnd(sol) == SetMax({sol.operations[k].end : k \in DOMAIN sol.operations}, 0)

MakespanCoversEnds(sol) == sol.makespan >= MaxEnd(sol)

SolutionContract(sol) ==
    /\ MachineIdsUnique(sol)
    /\ OperationTimesOk(sol)
    /\ MachineRefsDeclared(sol)
    /\ OperationKeysUnique(sol)
    /\ MakespanCoversEnds(sol)

\* C1: validate_solution returns without error exactly when the five
\* invariants of the Solution contract hold (unique machine ids, non-negative
\* times with end >= start, declared machine references, unique (jobId, opId)
\* pairs, makespan >= max end or 0); every rejection is a ValueError.
C1_ValidateIffContract ==
    vout # NotRun =>
        /\ (vout = Ok) <=> SolutionContract(vsol)
        /\ vout # Ok => vout.exc = "ValueError"

\* C1 witness: a schedule with two operations that breaks only the makespan
\* invariant has been validated and rejected for it.
C1_Witness ==
    /\ vout = Raise("ValueError", MsgMakespan)
    /\ Len(vsol.operations) = 2
    /\ ~MakespanCoversEnds(vsol)
    /\ MachineIdsUnique(vsol) /\ OperationTimesOk(vsol)
    /\ MachineRefsDeclared(vsol) /\ OperationKeysUnique(vsol)

(***************************************************************************)
(* Claims about the schema validator's shape helpers.                      *)
(***************************************************************************)
\* The supplied value has the declared shape: a 1-D list of the declared
\* length; a nested list of rows x cols; or a flat list of rows * cols cells
\* for non-negative rows and cols.
ShapeDeclared(kind, val, rows, cols) ==
    IF kind = "1d_int" THEN IsList(val) /\ Len(val.l) = rows
    ELSE \/ /\ IsNested(val)
            /\ Len(val.l) = rows
            /\ \A r \in DOMAIN val.l : Len(val.l[r].l) = cols
         \/ /\ IsList(val)
            /\ \A k \in DOMAIN val.l : ~IsList(val.l[k])
            /\ rows >= 0 /\ cols >= 0
            /\ Len(val.l) = rows * cols

\* Number of cells of the supplied value and of a returned vector or matrix.
SuppliedCells(val) ==
    IF IsNested(val) THEN Len(Flatten(val.l)) ELSE Len(val.l)

RECURSIVE SumLens(_)
SumLens(m) == IF m = <<>> THEN 0 ELSE Len(Head(m)) + SumLens(Tail(m))

ReturnedCells(kind, out) == IF kind = "1d_int" THEN Len(out) ELSE SumLens(out)

\* C6 (as claimed): for every integer value of the declared dimensions, a
\* vector or matrix field whose shape does not match them is rejected with a
\* ValueError, and an accepted field is returned with exactly the cells that
\* were supplied (none dropped, none added), nested or flat.
C6_ShapeMismatchRejected ==
    sout # SchemaNotRun =>
        /\ ~ShapeDeclared(skind, sval, srows, scols) => sout.exc = "ValueError"
        /\ sout.exc = "none" => ReturnedCells(skind, sout.val) = SuppliedCells(sval)

\* The cells the claim allows in a boolean matrix and what each one means.
Lower(str) == CASE str = "TRUE" -> "true" [] str = "False" -> "false" [] OTHER -> str

BoolCellAllowed(x) ==
    \/ x.t = "bool"
    \/ x.t = "int" /\ x.i \in {0, 1}
    \/ x.t = "float" /\ x.i \in {0, 2}
    \/ x.t = "str" /\ Lower(x.s) \in {"true", "t", "1", "false", "f", "0"}

BoolCellMeaning(x) ==
    IF x.t = "str" THEN Lower(x.s) \in {"true", "t", "1"} ELSE x.i # 0

MeaningMatrix(val, rows, cols) ==
    [r \in 1..rows |-> [c \in 1..cols |-> BoolCellMeaning(CellsOf(val)[(r - 1) * cols + c])]]

\* C9 (as claimed): on a field of the declared shape the boolean-matrix
\* validator returns the matrix of the cells' boolean meanings when every
\* cell is a boolean literal, the number 0 or 1, or one of the strings
\* true/t/1/false/f/0 in any case, and raises ValueError when any cell is
\* something else, in the nested and in the flat representation alike.
C9_BoolCellsStrict ==
    (sout # SchemaNotRun /\ skind = "2d_bool" /\ ShapeDeclared(skind, sval, srows, scols)) =>
        IF \A k \in DOMAIN CellsOf(sval) : BoolCellAllowed(CellsOf(sval)[k])
        THEN sout = Return(MeaningMatrix(sval, srows, scols))
        ELSE sout.exc = "ValueError"

\* The cell values the claim ranges over: integers, booleans, the numbers
\* 0 and 1 (as floats 0.0 and 1.0 too) and string tokens.
CellTypeAccepted(x) ==
    \/ x.t \in {"bool", "int", "str"}
    \/ x.t = "float" /\ x.i \in {0, 2}

\* C7 (as claimed): a 2-D field supplied as a nested rows x cols list and
\* the same cells supplied as a flat row-major list are both rejected, or
\* both accepted with the identical matrix.
C7_NestedFlatAgree ==
    (/\ sout # SchemaNotRun
     /\ skind \in {"2d_int", "2d_bool"}
     /\ IsNested(sval)
     /\ ShapeDeclared(skind, sval, srows, scols)
     /\ \A k \in DOMAIN Flatten(sval.l) : CellTypeAccepted(Flatten(sval.l)[k])) =>
        LET flatOut == ApplySchema(skind, PyList(Flatten(sval.l)), srows, scols)
        IN \/ sout.exc # "none" /\ flatOut.exc # "none"
           \/ sout.exc = "none" /\ flatOut.exc = "none" /\ sout.val = flatOut.val

(***************************************************************************)
(* Claim about the model configurator.                                     *)
(***************************************************************************)
\* A solve statement begins at p: the word "solve" standing alone (at the
\* start of the text or after white space or a ";"), followed by white space,
\* with a ";" somewhere after it.
SolveStatementAt(text, p) ==
    /\ text[p] = "solve"
    /\ p = 1 \/ IsSpace(text[p - 1]) \/ text[p - 1] = ";"
    /\ p < Len(text) /\ IsSpace(text[p + 1])
    /\ \E e \in (p + 1)..Len(text) : text[e] = ";"

StatementEnd(text, p) ==
    CHOOSE e \in (p + 1)..Len(text) :
        text[e] = ";" /\ \A k \in (p + 1)..(e - 1) : text[k] # ";"

\* The base text with exactly its first solve statement replaced.
FirstStatementReplaced(text, repl) ==
    IF \E p \in DOMAIN text : SolveStatementAt(text, p)
    THEN LET p == CHOOSE k \in DOMAIN text :
                     SolveStatementAt(text, k)
                     /\ \A j \in 1..(k - 1) : ~SolveStatementAt(text, j)
         IN SubSeq(text, 1, p - 1) \o repl
              \o SubSeq(text, StatementEnd(text, p) + 1, Len(text))
    ELSE text

\* The text without its white space.
NoSpace(text) == SelectSeq(text, LAMBDA tok : ~IsSpace(tok))

\* C10 (as claimed): the configured model equals the base model text with
\* exactly the first solve statement replaced by the directive
\* "solve :: int_search(BRANCH_VARS, <heuristic>, <valueChoice>, complete)
\* minimize <obj>;" (obj = w for weighted tardiness, END for maintenance),
\* later solve statements and all other text unchanged.  The two texts are
\* compared with white space left out, so indentation and blank lines taken
\* along with a replaced statement do not count as a difference.  (The base
\* text is only read: cbase is the text before and after the call.)
C10_FirstSolveReplaced ==
    ctmp # NoFile =>
        NoSpace(ctmp) = NoSpace(FirstStatementReplaced(cbase, SearchLine(ccfg)))

(***************************************************************************)
(* Claims about one request through the pipeline.                          *)
(***************************************************************************)
\* C2: a response with status COMPLETED is produced only after the
\* normalizer produced the schedule and validate_solution accepted it, so the
\* returned schedule satisfies makespan >= max(operation.end); the schedule
\* returned is the one the normalizer produced, unmodified by the validator.
C2_CompletedOnlyValidated ==
    resp.status = "COMPLETED" =>
        /\ pc = "done"
        /\ runnerOut.exc = "none"
        /\ validOut = Ok
        /\ resp.solution = normalized
        /\ mainSolution = normalized
        /\ Len(resp.solution.operations) > 0
        /\ MakespanCoversEnds(resp.solution)
        /\ SolutionContract(resp.solution)

C2_Witness ==
    /\ resp.status = "COMPLETED"
    /\ req.variation = "mantenimiento"
    /\ Len(resp.solution.operations) >= 2
    /\ resp.solution.makespan > 0

\* C3 (as claimed): whenever the model configurator created the temporary
\* model file, the file has been released exactly once by the time the
\* variant runner has returned or raised; no request ends with the temporary
\* model file still existing.
C3_TempFileReleased ==
    pc \in {"solve_returned", "validate_solution", "respond", "done"} =>
        /\ ~tmp.exists
        /\ tmp.unlinked = tmp.created

\* The ways the solver orchestrator ends without bindings.
InfeasibleOutcome(out) == out.exc = "RuntimeError" /\ out.msg = MsgInfeasible
EngineErrorOutcome(out) == out.exc \in {"MiniZincError", "LookupError"}

\* The engine was invoked and returned a result (it did not raise).
EngineReported == engine.calls > 0 /\ pc # "solve" /\ runnerOut.exc # "MiniZincError"

\* C4: whenever the engine result reports that it has no solution, the
\* runner ends with the no-feasible-solution outcome, no Solution is
\* constructed or handed on, and the request is never answered COMPLETED;
\* for both problem variants.
C4_NoSolutionNoSchedule ==
    (EngineReported /\ ~engineResult.has_solution) =>
        /\ normalized = NoneSolution
        /\ mainSolution = NoneSolution
        /\ validOut = NotRun
        /\ resp.status # "COMPLETED" /\ resp.solution = NoneSolution
        /\ pc \in {"after_solve", "finally", "solve_returned", "done"}
        /\ pc # "after_solve" => InfeasibleOutcome(runnerOut)
        /\ pc = "done" => resp.code \notin {0, 200}

C4_Witness ==
    /\ pc = "done"
    /\ engine.calls = 1
    /\ ~engineResult.has_solution
    /\ InfeasibleOutcome(runnerOut)
    /\ req.variation = "tardanza"

\* C5 (as claimed): a request whose solve ended in an engine error or in the
\* no-feasible-solution outcome is answered with a structured failure (a
\* status that indicates failure), never with the generic internal error.
C5_EngineFailuresStructured ==
    (pc = "done" /\ (InfeasibleOutcome(runnerOut) \/ EngineErrorOutcome(runnerOut))) =>
        /\ resp # ServerError
        /\ resp.status = "ERROR"

\* The fields of the request's variant, in the order the runner validates them.
FieldsInOrder(variation) == IF variation = "tardanza" THEN TardanzaFields ELSE MaintFields

Lacks(f) == req.data[f] = Absent

\* The variant runner was entered and its schema validation has finished.
RunnerRan ==
    /\ pc \notin {"extract", "validate_search", "model_selection", "select_model_path",
                  "schema"}
    /\ ~(pc = "done" /\ runnerOut.exc = "notrun")
    /\ runnerOut.msg # MsgModelFile

MissingField(f) == [exc |-> "ValueError", msg |-> MsgMissing, key |-> f]

EarlierFieldsSound(k) ==
    \E w \in WellFormedInstances(req.variation) :
        \A j \in 1..(k - 1) :
            req.data[FieldsInOrder(req.variation)[j]] = w[FieldsInOrder(req.variation)[j]]

Backends == {"chuffed", "gecode", "com.google.ortools.sat"}

\* C11 (as claimed): a configured identifier maps to its concrete backend
\* when that backend is installed; and when no backend at all is available
\* the outcome is a RuntimeError (the toolchain is missing), never a
\* ValueError or another exception type.
C11_BackendSelection ==
    epc \in {"solve", "done"} =>
        /\ SolverMap(ecfg.solver) \in eavail =>
              eout = [exc |-> "none", backend |-> SolverMap(ecfg.solver)]
        /\ eavail \cap Backends = {} => eout.exc = "RuntimeError"

\* C12: the engine is invoked with a timeout if and only if timeLimitSec > 0,
\* then equal to timeLimitSec, and with a solution-count request if and only
\* if maxSolutions > 1, then equal to maxSolutions.
C12_KwargsFollowConfig ==
    (epc = "done" /\ eout.exc = "none") =>
        /\ ekwargs.has_timeout <=> ecfg.timeLimitSec > 0
        /\ ekwargs.has_timeout => ekwargs.timeout = ecfg.timeLimitSec
        /\ ekwargs.has_nr_solutions <=> ecfg.maxSolutions > 1
        /\ ekwargs.has_nr_solutions => ekwargs.nr_solutions = ecfg.maxSolutions

C12_Witness ==
    /\ epc = "done" /\ eout.exc = "none"
    /\ ecfg.timeLimitSec = 0 /\ ecfg.maxSolutions = 2
    /\ ~ekwargs.has_timeout
    /\ ekwargs.has_nr_solutions /\ ekwargs.nr_solutions = 2

(***************************************************************************)
(* Claims about the normalization.                                         *)
(***************************************************************************)
\* The integer at (i, j) of the start matrix the engine reported.
ReportedStart(key, i, j) == nresult.sol[key].l[i].l[j].i

\* The operations of job i in the schedule built.
JobOps(i) == {n \in DOMAIN nout.val.operations : nout.val.operations[n].jobId = JobId(i)}

\* t_i = max(0, (max end among job i's operations) - due_date_i)
JobTardiness(i) ==
    Max2(0, SetMax({nout.val.operations[n].end : n \in JobOps(i)}, 0) - ntyped.due_dates[i])

RECURSIVE SumTardiness(_)
SumTardiness(i) == IF i <= 0 THEN 0 ELSE JobTardiness(i) + SumTardiness(i - 1)

\* C13: the schedule built by the weighted-tardiness normalizer has exactly
\* one operation per (job, task), with start = s[job][task], duration =
\* d[job][task] and end = start + duration; makespan is the largest end; and
\* the stats hold the sum of the per-job tardiness, the number of tardy jobs
\* and the largest tardiness, alongside w as the engine reported it.
C13_TardanzaNormalization ==
    (nkind = "tardanza_ponderada" /\ nout.exc = "none") =>
        LET sol == nout.val
            ops == sol.operations
        IN /\ Len(ops) = ntyped.jobs * ntyped.tasks
           /\ \A i \in 1..ntyped.jobs : \A j \in 1..ntyped.tasks :
                 /\ Cardinality({n \in DOMAIN ops :
                                   ops[n].jobId = JobId(i) /\ ops[n].machineId = MachineId(j)}) = 1
                 /\ \E n \in DOMAIN ops :
                       /\ ops[n].jobId = JobId(i) /\ ops[n].machineId = MachineId(j)
                       /\ ops[n].opId = OpId(i, j)
                       /\ ops[n].start = ReportedStart("s", i, j)
                       /\ ops[n].duration = ntyped.d[i][j]
                       /\ ops[n].end = ops[n].start + ops[n].duration
           /\ \A n \in DOMAIN ops : sol.makespan >= ops[n].end
           /\ ops # <<>> => \E n \in DOMAIN ops : sol.makespan = ops[n].end
           /\ ops = <<>> => sol.makespan = 0
           /\ sol.stats.tardanza_total = SumTardiness(ntyped.jobs)
           /\ sol.stats.jobs_tardios =
                 Cardinality({i \in 1..ntyped.jobs : JobTardiness(i) > 0})
           /\ sol.stats.max_tardanza =
                 SetMax({JobTardiness(i) : i \in 1..ntyped.jobs}, 0)
           /\ sol.stats.w = nresult.sol["w"].i

C13_Witness ==
    /\ nkind = "tardanza_ponderada" /\ nout.exc = "none"
    /\ ntyped.jobs = 2 /\ ntyped.tasks = 2
    /\ nout.val.stats.jobs_tardios = 1
    /\ nout.val.stats.tardanza_total = 3
    /\ nout.val.stats.max_tardanza = 3

\* The window the claim expects for the active cell (m, k), m counted from 1.
ExpectedWindow(m, k) ==
    [machineId |-> MachineId(m),
     start |-> ntyped.MAINT_START[m][k],
     end |-> ntyped.MAINT_END[m][k],
     duration |-> IF ntyped.MAINT_END[m][k] > ntyped.MAINT_START[m][k]
                  THEN ntyped.MAINT_END[m][k] - ntyped.MAINT_START[m][k]
                  ELSE 0]

ActiveCells ==
    {c \in (1..ntyped.tasks) \X (1..ntyped.MAX_MW) : ntyped.MAINT_ACTIVE[c[1]][c[2]]}

RECURSIVE SumWindowDurations(_, _)
SumWindowDurations(ws, n) ==
    IF n = 0 THEN 0 ELSE ws[n].duration + SumWindowDurations(ws, n - 1)

\* C14: the maintenance normalizer emits exactly one MaintenanceWindow per
\* active (machine, slot) cell, carrying that machine's id, the cell's start
\* and end and duration = max(0, end - start); inactive cells contribute
\* nothing; maint_windows is the number of windows and maint_time the sum of
\* their durations.
C14_MaintenanceWindows ==
    (nkind = "jssp_maint" /\ nout.exc = "none") =>
        LET ws == nout.val.maintenanceWindows
        IN /\ Len(ws) = Cardinality(ActiveCells)
           /\ \A c \in ActiveCells :
                 Cardinality({n \in DOMAIN ws : ws[n] = ExpectedWindow(c[1], c[2])})
                   = Cardinality({e \in ActiveCells :
                                    ExpectedWindow(e[1], e[2]) = ExpectedWindow(c[1], c[2])})
           /\ \A n \in DOMAIN ws :
                 \E c \in ActiveCells : ws[n] = ExpectedWindow(c[1], c[2])
           /\ nout.val.stats.maint_windows = Len(ws)
           /\ nout.val.stats.maint_time = SumWindowDurations(ws, Len(ws))

C14_Witness ==
    /\ nkind = "jssp_maint" /\ nout.exc = "none"
    /\ ntyped.tasks = 2 /\ ntyped.MAX_MW = 2
    /\ Cardinality(ActiveCells) = 2
    /\ Len(nout.val.maintenanceWindows) = 2
    /\ \E n \in 1..2 : nout.val.maintenanceWindows[n].duration = 0
    /\ nout.val.stats.maint_time = 3

(***************************************************************************)
(* Claims about the makespan, the result extraction and the error routing  *)
(* of one request.                                                         *)
(***************************************************************************)
\* The runner of the maintenance variant built a schedule.
MaintScheduleBuilt ==
    req.variation = "mantenimiento" /\ runnerOut.exc = "none" /\ pc # "after_solve"
      /\ engine.calls > 0

\* Some operation of the schedule ends after the reported END.
EndBelowOperations ==
    \E n \in DOMAIN normalized.operations :
        normalized.operations[n].end > engineResult.sol["END"].i

\* C15: in the maintenance variant the makespan of the schedule is the END
\* the engine reported, never recomputed from the operations; a schedule
\* whose END is smaller than some operation's end is refused by
\* validate_solution and never returned as COMPLETED.
C15_MakespanIsReportedEnd ==
    MaintScheduleBuilt =>
        /\ normalized.makespan = engineResult.sol["END"].i
        /\ resp.status = "COMPLETED" => resp.solution.makespan = engineResult.sol["END"].i
        /\ EndBelowOperations =>
              /\ resp.status # "COMPLETED"
              /\ pc \in {"respond", "done"} => validOut = Raise("ValueError", MsgMakespan)
              /\ pc = "done" => resp = ClientError(MsgMakespan, "")

C15_Witness ==
    /\ MaintScheduleBuilt /\ EndBelowOperations
    /\ pc = "done"
    /\ normalized.makespan = 1
    /\ resp = ClientError(MsgMakespan, "")

\* The variable names the runner of the request reads from the result.
StartKey == IF ProblemTypeOf(req.variation) = "tardanza_ponderada" THEN "s" ELSE "S"
ObjKey == IF ProblemTypeOf(req.variation) = "tardanza_ponderada" THEN "w" ELSE "END"

\* The reported start matrix has the declared shape: rows lists of cols
\* cells, or a flat list of rows * cols cells.
StartShapeDeclared ==
    LET val == engineResult.sol[StartKey]
    IN /\ IsList(val)
       /\ IF Len(val.l) > 0 /\ IsList(val.l[1])
          THEN /\ Len(val.l) = typedData.jobs
               /\ \A i \in DOMAIN val.l : IsList(val.l[i]) /\ Len(val.l[i].l) = typedData.tasks
          ELSE Len(val.l) = typedData.jobs * typedData.tasks

\* The try block ran past the has_solution test on a result with a solution.
ExtractionRan ==
    EngineReported /\ engineResult.has_solution /\ pc # "after_solve"

\* C16 (as claimed): for every engine result that has a solution, a missing
\* expected variable or a start matrix whose shape differs from the declared
\* rows x cols (fewer or more rows, fewer or more columns, wrong flat length)
\* ends the runner with a RuntimeError: never a ValueError, and never a
\* schedule built from part of the matrix.
C16_ResultShapeEnforced ==
    (/\ ExtractionRan
     /\ \/ engineResult.sol[StartKey] = Absent
        \/ engineResult.sol[ObjKey] = Absent
        \/ ~StartShapeDeclared) =>
        /\ runnerOut.exc = "RuntimeError"
        /\ normalized = NoneSolution

(***************************************************************************)
(* Claim about the instance parser.                                        *)
(***************************************************************************)
\* The filename hint ends in .json, whatever the case of its letters.
JsonHint ==
    /\ Len(pname) >= 5
    /\ \A k \in 1..5 : LowerChar(pname[Len(pname) - 5 + k]) = DotJson[k]

\* The text is valid JSON whose top level is an object.
TextIsJsonObject == JsonLoads(ptext).exc = "none" /\ JsonLoads(ptext).val.t = "dict"

\* C17: with a filename ending in .json (case-insensitive) the result is the
\* parsed JSON object, or a ParseError (ValueError) when the text is not
\* valid JSON or not an object, with no fallback to the DZN-like parser; with
\* any other filename the result is the JSON object when the text parses to
\* one, and otherwise exactly the result of the DZN-like parser on the text.
C17_ParserStrategyOrder ==
    pout # ParseNotRun =>
        /\ TextIsJsonObject => pout = [exc |-> "none", val |-> JsonLoads(ptext).val]
        /\ (~TextIsJsonObject /\ JsonHint) => pout = [exc |-> "ValueError", val |-> NoJVal]
        /\ (~TextIsJsonObject /\ ~JsonHint) => pout = [exc |-> "none", val |-> ParseDzn(ptext)]

C17_Witness ==
    /\ pname = <<"A", ".", "J", "S", "O", "N">>
    /\ ptext = <<"k", "=", "1", ";">>
    /\ ParseDzn(ptext) = JDict({<<(<<"k">>), JInt(1)>>})
    /\ pout = [exc |-> "ValueError", val |-> NoJVal]

(***************************************************************************)
(* Claim about the error routing of the transport shell.                   *)
(***************************************************************************)
\* The envelope of the request lacks a field, holds an unparsable or
\* invalid search configuration, or names no readable, parsable or stored
\* instance.
EnvelopeDefective ==
    \/ req.modelId = "" \/ req.variation = ""
    \/ req.search \in {"", "unparsable", "invalid"}
    \/ req.source \in {"", "file_unreadable", "file_unparsable", "stored_missing"}

UnknownSelection ==
    req.modelId # "jobshop" \/ req.variation \notin {"tardanza", "mantenimiento"}

\* The schema validation of the runner rejected the instance.
SchemaRejected ==
    /\ runnerOut.exc \notin {"none", "notrun"}
    /\ runnerOut.msg # MsgModelFile
    /\ tmp.created = 0

\* C18 (as claimed): a ParseError or ValidationError arising in any stage
\* (instance parsing, stored-instance lookup, construction of the solver
\* configuration, search validation, instance schema validation, schedule
\* validation) is answered 400; every other failure is answered 500 with
\* the generic body only.
C18_ErrorRouting ==
    pc = "done" =>
        /\ resp.code \in {200, 400, 500}
        /\ resp.code = 500 => resp = ServerError
        /\ (EnvelopeDefective \/ UnknownSelection) => resp.code = 400
        /\ ~(EnvelopeDefective \/ UnknownSelection) =>
              /\ SchemaRejected => resp.code = 400
              /\ runnerOut.exc = "ValueError" => resp.code = 400
              /\ validOut.exc = "ValueError" => resp.code = 400
              /\ (~SchemaRejected /\ runnerOut.exc \notin {"none", "notrun", "ValueError"}) =>
                    resp = ServerError

(***************************************************************************)
(* Claim about the normalizer and the validator together.                  *)
(***************************************************************************)
\* The engine reported a start matrix of non-negative cells for an instance
\* of non-negative durations.
NonNegativeTimes ==
    /\ nresult.has_solution
    /\ \A i \in 1..ntyped.jobs : \A j \in 1..ntyped.tasks :
          ReportedStart("s", i, j) >= 0 /\ ntyped.d[i][j] >= 0

\* C19: for every typed weighted-tardiness instance and every engine result
\* with non-negative start times and durations, the normalizer builds a
\* schedule and validate_solution accepts it: the machine ids are pairwise
\* unique, every operation's machineId is one of them, the (jobId, opId)
\* pairs are pairwise unique, end >= start, and makespan equals the largest
\* operation end.
C19_NormalizedAccepted ==
    (nkind = "tardanza_ponderada" /\ nout # NormalizeNotRun /\ NonNegativeTimes) =>
        /\ nout.exc = "none"
        /\ ValidateSolution(nout.val) = Ok
        /\ MachineIdsUnique(nout.val)
        /\ Len(nout.val.machines) = ntyped.tasks
        /\ MachineRefsDeclared(nout.val)
        /\ OperationKeysUnique(nout.val)
        /\ OperationTimesOk(nout.val)
        /\ nout.val.makespan = MaxEnd(nout.val)

C19_Witness ==
    /\ nkind = "tardanza_ponderada" /\ nout # NormalizeNotRun /\ NonNegativeTimes
    /\ ntyped.jobs = 2 /\ ntyped.tasks = 2
    /\ ValidateSolution(nout.val) = Ok
    /\ nout.val.makespan = 3

====
